---- MODULE Spec2Model ----
(***************************************************************************)
(* Model of the Schwa semantic analyzer (src/schwa/analyzer.ts) together   *)
(* with its symbol model (Scope / Variable / Function / Struct) and type   *)
(* model (DataType).  An AST is fixed in the initial state; the four       *)
(* passes of Analyzer.analyze then visit it one node per step.             *)
(***************************************************************************)
EXTENDS Integers, Sequences, FiniteSets, TLC

VARIABLES
    ast,      \* the AST under analysis: sequence of nodes, node ids in pre-order
    pc,       \* "hoist" | "scope" | "type" | "analysis" | "done" | "thrown"
    idx,      \* position of the running pass in its visiting order
    nscope,   \* node id -> node.scope (0 = null)
    ndt,      \* node id -> node.dataType ("" = null)
    scopes,   \* the heap of Scope objects, in creation order (1 = rootScope)
    log       \* the logger: sequence of diagnostics [msg, node]

vars == <<ast, pc, idx, nscope, ndt, scopes, log>>

(***************************************************************************)
(* DataType (src/unnamed/part_000)                                         *)
(***************************************************************************)
DT_None == "void"
DT_Invalid == "invalid"
DT_Type == "type"
DT_Int == "int"
DT_UInt == "uint"
DT_Long == "long"
DT_ULong == "ulong"
DT_Float == "float"
DT_Double == "double"
DT_Bool == "bool"

fromTokenType(type) ==
    IF type = "Int" THEN DT_Int
    ELSE IF type = "UInt" THEN DT_UInt
    ELSE IF type = "Long" THEN DT_Long
    ELSE IF type = "ULong" THEN DT_ULong
    ELSE IF type = "Float" THEN DT_Float
    ELSE IF type = "Double" THEN DT_Double
    ELSE IF type = "Bool" THEN DT_Bool
    ELSE DT_Invalid

isPrimitive(type) ==
    type \in {DT_None, DT_Invalid, DT_Type, DT_Int, DT_UInt, DT_Long,
              DT_ULong, DT_Float, DT_Double, DT_Bool}

(***************************************************************************)
(* AST nodes.  A tree is written nested (Node / Leaf) and flattened into a *)
(* sequence whose indices are the node ids, assigned in pre-order, with    *)
(* parent back-edges.  A leaf has an empty children list.                  *)
(***************************************************************************)
Node(type, tok, tt, kids) ==
    [type |-> type, tok |-> tok, tt |-> tt, chars |-> <<>>, kids |-> kids]

Leaf(type, tok, tt) == Node(type, tok, tt, <<>>)

\* a Literal leaf; chars spells the token's value character by character
Lit(tt, tok, chars) ==
    [type |-> "Literal", tok |-> tok, tt |-> tt, chars |-> chars, kids |-> <<>>]

RECURSIVE TreeSize(_)
RECURSIVE KidsSize(_, _)
KidsSize(kids, k) ==
    IF k = 0 THEN 0 ELSE KidsSize(kids, k - 1) + TreeSize(kids[k])

TreeSize(t) == 1 + KidsSize(t.kids, Len(t.kids))

RECURSIVE Flatten(_, _, _)
RECURSIVE FlattenKids(_, _, _)
FlattenKids(kids, par, k) ==
    IF k = 0 THEN <<>>
    ELSE FlattenKids(kids, par, k - 1)
         \o Flatten(kids[k], par, par + 1 + KidsSize(kids, k - 1))

Flatten(t, par, id) ==
    <<[type |-> t.type, tok |-> t.tok, tt |-> t.tt, chars |-> t.chars, parent |-> par,
       children |-> [k \in 1..Len(t.kids) |-> id + 1 + KidsSize(t.kids, k - 1)],
       valid |-> TRUE]>>
    \o FlattenKids(t.kids, id, Len(t.kids))

AstOf(t) == Flatten(t, 0, 1)

Nodes == 1..Len(ast)

\* n.children[i] with JavaScript's 0-based index; 0 stands for undefined
child(n, i) ==
    IF i + 1 <= Len(ast[n].children) THEN ast[n].children[i + 1] ELSE 0

(***************************************************************************)
(* Symbol model: Scope / Variable / Function / Struct.                     *)
(* A Scope is [node, parent, id, scopes, vars, funcs, structs]; node and   *)
(* parent are 0 for null.  scopes, funcs and structs are maps keyed by id; *)
(* vars is kept as a sequence in insertion order (the key order of the     *)
(* JavaScript object), with at most one entry per id.                      *)
(***************************************************************************)
EmptyMap == [x \in {} |-> 0]

\* let x = v in a body F(x): v is computed once and handed on by value
With(v, F(_)) == CHOOSE r \in {F(x) : x \in {v}} : TRUE

\* The maps are plain JavaScript objects ({}), so a read of a key that the map
\* does not hold itself falls through to Object.prototype: for the names of
\* its methods the read gives a function object, which is truthy and is no
\* Scope, Variable, Function or Struct.
ObjectPrototypeKeys ==
    {"constructor", "toString", "toLocaleString", "valueOf", "hasOwnProperty",
     "isPrototypeOf", "propertyIsEnumerable"}

\* what a lookup returns in place of a scope index when it read such a function
Inherited == 0 - 1

\* if (map[id]) : the truthiness of the read
HasKey(m, id) == id \in DOMAIN m \/ id \in ObjectPrototypeKeys

\* map[k] = v
MapPut(m, k, v) == (k :> v) @@ m

NewScopeRec(node, parent, id) ==
    [node |-> node, parent |-> parent, id |-> id,
     scopes |-> EmptyMap, vars |-> <<>>, funcs |-> EmptyMap, structs |-> EmptyMap]

NewVariable(node, scope, id, type) ==
    [node |-> node, scope |-> scope, id |-> id, type |-> type,
     const |-> FALSE, export |-> FALSE, global |-> FALSE, mapped |-> FALSE,
     offset |-> 0]

NewFunction(node, scope, id, type, params) ==
    [node |-> node, scope |-> scope, id |-> id, type |-> type, params |-> params,
     export |-> FALSE]

NewStruct(node, scope, id, fields) ==
    [node |-> node, scope |-> scope, id |-> id, fields |-> fields, export |-> FALSE]

\* position of id in a vars sequence, 0 when absent
VarPos(vs, id) ==
    IF \E i \in 1..Len(vs) : vs[i].id = id
    THEN CHOOSE i \in 1..Len(vs) : vs[i].id = id
    ELSE 0

\* scope.vars[v.id] = v : a new key is appended, an existing key keeps its place
VarPut(vs, v) ==
    IF VarPos(vs, v.id) = 0 THEN Append(vs, v)
    ELSE [vs EXCEPT ![VarPos(vs, v.id)] = v]

\* if (vars[id]) on a vars sequence
HasVar(vs, id) == VarPos(vs, id) # 0 \/ id \in ObjectPrototypeKeys

\* Hierarchical lookups.  Each returns the index of the scope whose own map
\* holds id (0 for null, Inherited for a function of Object.prototype); the
\* record is then read from that map.
RECURSIVE Scope_holderOfScope(_, _, _)
Scope_holderOfScope(sc, s, id) ==
    IF id \in DOMAIN sc[s].scopes THEN s
    ELSE IF id \in ObjectPrototypeKeys THEN Inherited
    ELSE IF sc[s].parent # 0 THEN Scope_holderOfScope(sc, sc[s].parent, id)
    ELSE 0

Scope_getScope(sc, s, id) ==
    LET h == Scope_holderOfScope(sc, s, id) IN IF h <= 0 THEN h ELSE sc[h].scopes[id]

\* a variable lookup that reads the scope's own map and never asks the parent
Scope_getVariable_OwnOnly(sc, s, id) ==
    IF VarPos(sc[s].vars, id) # 0 THEN s
    ELSE IF id \in ObjectPrototypeKeys THEN Inherited
    ELSE 0

RECURSIVE Scope_getVariable(_, _, _)
Scope_getVariable(sc, s, id) ==
    IF VarPos(sc[s].vars, id) # 0 THEN s
    ELSE IF id \in ObjectPrototypeKeys THEN Inherited
    ELSE IF sc[s].parent # 0 THEN Scope_getVariable(sc, sc[s].parent, id)
    ELSE 0

RECURSIVE Scope_getFunction(_, _, _)
Scope_getFunction(sc, s, id) ==
    IF id \in DOMAIN sc[s].funcs THEN s
    ELSE IF id \in ObjectPrototypeKeys THEN Inherited
    ELSE IF sc[s].parent # 0 THEN Scope_getFunction(sc, sc[s].parent, id)
    ELSE 0

RECURSIVE Scope_getStruct(_, _, _)
Scope_getStruct(sc, s, id) ==
    IF id \in DOMAIN sc[s].structs THEN s
    ELSE IF id \in ObjectPrototypeKeys THEN Inherited
    ELSE IF sc[s].parent # 0 THEN Scope_getStruct(sc, sc[s].parent, id)
    ELSE 0

VarAt(sc, s, id) == sc[s].vars[VarPos(sc[s].vars, id)]

(***************************************************************************)
(* Builtin catalog (SchwaAnalyzer constructor) and registerBuiltinFunc.    *)
(***************************************************************************)
rootScope == 1

Builtins == <<
    [path |-> <<"nop">>, type |-> DT_None, paramTypes |-> <<>>, paramNames |-> <<>>],
    [path |-> <<"int", "loadSByte">>, type |-> DT_Int, paramTypes |-> <<DT_UInt>>, paramNames |-> <<"addr">>],
    [path |-> <<"int", "loadShort">>, type |-> DT_Int, paramTypes |-> <<DT_UInt>>, paramNames |-> <<"addr">>],
    [path |-> <<"int", "load">>, type |-> DT_Int, paramTypes |-> <<DT_UInt>>, paramNames |-> <<"addr">>],
    [path |-> <<"int", "storeSByte">>, type |-> DT_None, paramTypes |-> <<DT_UInt, DT_Int>>, paramNames |-> <<"addr", "val">>],
    [path |-> <<"int", "storeShort">>, type |-> DT_None, paramTypes |-> <<DT_UInt, DT_Int>>, paramNames |-> <<"addr", "val">>],
    [path |-> <<"int", "store">>, type |-> DT_None, paramTypes |-> <<DT_UInt, DT_Int>>, paramNames |-> <<"addr", "val">>],
    [path |-> <<"uint", "loadByte">>, type |-> DT_UInt, paramTypes |-> <<DT_UInt>>, paramNames |-> <<"addr">>],
    [path |-> <<"uint", "loadUShort">>, type |-> DT_UInt, paramTypes |-> <<DT_UInt>>, paramNames |-> <<"addr">>],
    [path |-> <<"uint", "load">>, type |-> DT_UInt, paramTypes |-> <<DT_UInt>>, paramNames |-> <<"addr">>],
    [path |-> <<"uint", "storeByte">>, type |-> DT_None, paramTypes |-> <<DT_UInt, DT_UInt>>, paramNames |-> <<"addr", "val">>],
    [path |-> <<"uint", "storeUShort">>, type |-> DT_None, paramTypes |-> <<DT_UInt, DT_UInt>>, paramNames |-> <<"addr", "val">>],
    [path |-> <<"uint", "store">>, type |-> DT_None, paramTypes |-> <<DT_UInt, DT_UInt>>, paramNames |-> <<"addr", "val">>],
    [path |-> <<"long", "loadSByte">>, type |-> DT_Long, paramTypes |-> <<DT_UInt>>, paramNames |-> <<"addr">>],
    [path |-> <<"long", "loadShort">>, type |-> DT_Long, paramTypes |-> <<DT_UInt>>, paramNames |-> <<"addr">>],
    [path |-> <<"long", "loadInt">>, type |-> DT_Long, paramTypes |-> <<DT_UInt>>, paramNames |-> <<"addr">>],
    [path |-> <<"long", "load">>, type |-> DT_Long, paramTypes |-> <<DT_UInt>>, paramNames |-> <<"addr">>],
    [path |-> <<"long", "storeSByte">>, type |-> DT_None, paramTypes |-> <<DT_UInt, DT_Long>>, paramNames |-> <<"addr", "val">>],
    [path |-> <<"long", "storeShort">>, type |-> DT_None, paramTypes |-> <<DT_UInt, DT_Long>>, paramNames |-> <<"addr", "val">>],
    [path |-> <<"long", "storeInt">>, type |-> DT_None, paramTypes |-> <<DT_UInt, DT_Long>>, paramNames |-> <<"addr", "val">>],
    [path |-> <<"long", "store">>, type |-> DT_None, paramTypes |-> <<DT_UInt, DT_Long>>, paramNames |-> <<"addr", "val">>],
    [path |-> <<"ulong", "loadByte">>, type |-> DT_ULong, paramTypes |-> <<DT_UInt>>, paramNames |-> <<"addr">>],
    [path |-> <<"ulong", "loadUShort">>, type |-> DT_ULong, paramTypes |-> <<DT_UInt>>, paramNames |-> <<"addr">>],
    [path |-> <<"ulong", "loadUInt">>, type |-> DT_ULong, paramTypes |-> <<DT_UInt>>, paramNames |-> <<"addr">>],
    [path |-> <<"ulong", "load">>, type |-> DT_ULong, paramTypes |-> <<DT_UInt>>, paramNames |-> <<"addr">>],
    [path |-> <<"ulong", "storeByte">>, type |-> DT_None, paramTypes |-> <<DT_UInt, DT_ULong>>, paramNames |-> <<"addr", "val">>],
    [path |-> <<"ulong", "storeUShort">>, type |-> DT_None, paramTypes |-> <<DT_UInt, DT_ULong>>, paramNames |-> <<"addr", "val">>],
    [path |-> <<"ulong", "storeUInt">>, type |-> DT_None, paramTypes |-> <<DT_UInt, DT_ULong>>, paramNames |-> <<"addr", "val">>],
    [path |-> <<"ulong", "store">>, type |-> DT_None, paramTypes |-> <<DT_UInt, DT_ULong>>, paramNames |-> <<"addr", "val">>],
    [path |-> <<"float", "load">>, type |-> DT_Float, paramTypes |-> <<DT_UInt>>, paramNames |-> <<"addr">>],
    [path |-> <<"float", "store">>, type |-> DT_None, paramTypes |-> <<DT_UInt, DT_Float>>, paramNames |-> <<"addr", "val">>],
    [path |-> <<"double", "load">>, type |-> DT_Double, paramTypes |-> <<DT_UInt>>, paramNames |-> <<"addr", "val">>],
    [path |-> <<"double", "store">>, type |-> DT_None, paramTypes |-> <<DT_UInt, DT_Double>>, paramNames |-> <<"addr", "val">>],
    [path |-> <<"int", "clz">>, type |-> DT_Int, paramTypes |-> <<DT_Int>>, paramNames |-> <<"n">>],
    [path |-> <<"int", "ctz">>, type |-> DT_Int, paramTypes |-> <<DT_Int>>, paramNames |-> <<"n">>],
    [path |-> <<"int", "popcnt">>, type |-> DT_Int, paramTypes |-> <<DT_Int>>, paramNames |-> <<"n">>],
    [path |-> <<"int", "eqz">>, type |-> DT_Int, paramTypes |-> <<DT_Int>>, paramNames |-> <<"n">>],
    [path |-> <<"uint", "clz">>, type |-> DT_UInt, paramTypes |-> <<DT_UInt>>, paramNames |-> <<"n">>],
    [path |-> <<"uint", "ctz">>, type |-> DT_UInt, paramTypes |-> <<DT_UInt>>, paramNames |-> <<"n">>],
    [path |-> <<"uint", "popcnt">>, type |-> DT_UInt, paramTypes |-> <<DT_UInt>>, paramNames |-> <<"n">>],
    [path |-> <<"uint", "eqz">>, type |-> DT_UInt, paramTypes |-> <<DT_UInt>>, paramNames |-> <<"n">>],
    [path |-> <<"long", "clz">>, type |-> DT_Long, paramTypes |-> <<DT_Long>>, paramNames |-> <<"n">>],
    [path |-> <<"long", "ctz">>, type |-> DT_Long, paramTypes |-> <<DT_Long>>, paramNames |-> <<"n">>],
    [path |-> <<"long", "popcnt">>, type |-> DT_Long, paramTypes |-> <<DT_Long>>, paramNames |-> <<"n">>],
    [path |-> <<"long", "eqz">>, type |-> DT_Long, paramTypes |-> <<DT_Long>>, paramNames |-> <<"n">>],
    [path |-> <<"ulong", "clz">>, type |-> DT_ULong, paramTypes |-> <<DT_ULong>>, paramNames |-> <<"n">>],
    [path |-> <<"ulong", "ctz">>, type |-> DT_ULong, paramTypes |-> <<DT_ULong>>, paramNames |-> <<"n">>],
    [path |-> <<"ulong", "popcnt">>, type |-> DT_ULong, paramTypes |-> <<DT_ULong>>, paramNames |-> <<"n">>],
    [path |-> <<"ulong", "eqz">>, type |-> DT_ULong, paramTypes |-> <<DT_ULong>>, paramNames |-> <<"n">>],
    [path |-> <<"float", "abs">>, type |-> DT_Float, paramTypes |-> <<DT_Float>>, paramNames |-> <<"n">>],
    [path |-> <<"float", "ceil">>, type |-> DT_Float, paramTypes |-> <<DT_Float>>, paramNames |-> <<"n">>],
    [path |-> <<"float", "floor">>, type |-> DT_Float, paramTypes |-> <<DT_Float>>, paramNames |-> <<"n">>],
    [path |-> <<"float", "truncate">>, type |-> DT_Float, paramTypes |-> <<DT_Float>>, paramNames |-> <<"n">>],
    [path |-> <<"float", "round">>, type |-> DT_Float, paramTypes |-> <<DT_Float>>, paramNames |-> <<"n">>],
    [path |-> <<"float", "sqrt">>, type |-> DT_Float, paramTypes |-> <<DT_Float>>, paramNames |-> <<"n">>],
    [path |-> <<"float", "copysign">>, type |-> DT_Float, paramTypes |-> <<DT_Float, DT_Float>>, paramNames |-> <<"a", "b">>],
    [path |-> <<"float", "min">>, type |-> DT_Float, paramTypes |-> <<DT_Float, DT_Float>>, paramNames |-> <<"a", "b">>],
    [path |-> <<"float", "max">>, type |-> DT_Float, paramTypes |-> <<DT_Float, DT_Float>>, paramNames |-> <<"a", "b">>],
    [path |-> <<"double", "abs">>, type |-> DT_Double, paramTypes |-> <<DT_Double>>, paramNames |-> <<"n">>],
    [path |-> <<"double", "ceil">>, type |-> DT_Double, paramTypes |-> <<DT_Double>>, paramNames |-> <<"n">>],
    [path |-> <<"double", "floor">>, type |-> DT_Double, paramTypes |-> <<DT_Double>>, paramNames |-> <<"n">>],
    [path |-> <<"double", "truncate">>, type |-> DT_Double, paramTypes |-> <<DT_Double>>, paramNames |-> <<"n">>],
    [path |-> <<"double", "round">>, type |-> DT_Double, paramTypes |-> <<DT_Double>>, paramNames |-> <<"n">>],
    [path |-> <<"double", "sqrt">>, type |-> DT_Double, paramTypes |-> <<DT_Double>>, paramNames |-> <<"n">>],
    [path |-> <<"double", "copysign">>, type |-> DT_Double, paramTypes |-> <<DT_Double, DT_Double>>, paramNames |-> <<"a", "b">>],
    [path |-> <<"double", "min">>, type |-> DT_Double, paramTypes |-> <<DT_Double, DT_Double>>, paramNames |-> <<"a", "b">>],
    [path |-> <<"double", "max">>, type |-> DT_Double, paramTypes |-> <<DT_Double, DT_Double>>, paramNames |-> <<"a", "b">>]
>>

\* The loop over the path's prefix parts: creates missing scopes on the way.
\* Returns [sc, scope]: the heap and the scope the function goes to.
RECURSIVE BuiltinPath(_, _, _, _)
BuiltinPath(sc, scope, parts, i) ==
    IF i > Len(parts) THEN [sc |-> sc, scope |-> scope]
    ELSE IF HasKey(sc[scope].scopes, parts[i])
         THEN BuiltinPath(sc, sc[scope].scopes[parts[i]], parts, i + 1)
         ELSE LET new == Len(sc) + 1
                  sc1 == Append([sc EXCEPT ![scope].scopes = MapPut(@, parts[i], new)],
                                NewScopeRec(0, scope, parts[i]))
              IN BuiltinPath(sc1, new, parts, i + 1)

\* a registration that ignores the path and puts every function in the root
registerBuiltinFunc_Flat(sc, path, type, paramTypes, paramNames) ==
    LET id == path[Len(path)]
        params == [i \in 1..Len(paramTypes) |->
                      NewVariable(0, rootScope, paramNames[i], paramTypes[i])]
    IN [sc EXCEPT ![rootScope].funcs =
            MapPut(@, id, NewFunction(0, rootScope, id, type, params))]

registerBuiltinFunc(sc, path, type, paramTypes, paramNames) ==
    LET parts == SubSeq(path, 1, Len(path) - 1)
        id == path[Len(path)]
    IN With(BuiltinPath(sc, rootScope, parts, 1), LAMBDA r :
          LET params == [i \in 1..Len(paramTypes) |->
                            NewVariable(0, r.scope, paramNames[i], paramTypes[i])]
          IN [r.sc EXCEPT ![r.scope].funcs =
                  MapPut(@, id, NewFunction(0, r.scope, id, type, params))])

\* the registerBuiltinFunc calls lo..hi of the constructor, in order (the
\* range is halved so that the evaluation stays shallow)
RECURSIVE RegisterBuiltins(_, _, _)
RegisterBuiltins(sc, lo, hi) ==
    IF lo > hi THEN sc
    ELSE IF lo = hi
    THEN With(Builtins[lo], LAMBDA b :
            registerBuiltinFunc(sc, b.path, b.type, b.paramTypes, b.paramNames))
    ELSE LET mid == (lo + hi) \div 2
             s1 == RegisterBuiltins(sc, lo, mid)
         IN IF Len(s1) > 0 THEN RegisterBuiltins(s1, mid + 1, hi) ELSE s1

\* the scope heap after the constructor
ConstructedScopes == RegisterBuiltins(<<NewScopeRec(0, 0, "")>>, 1, Len(Builtins))

(***************************************************************************)
(* Analyzer state threaded through the rules:                              *)
(*   [nscope, ndt, scopes, log, err]; err = an exception was thrown (a     *)
(*   property read on undefined), after which nothing more is executed.    *)
(***************************************************************************)
MAX_TYPE_DEPTH == 16

Throw(st) == [st EXCEPT !.err = TRUE]

\* logError reads node.token: an undefined node throws
logError(st, msg, node) ==
    IF node = 0 THEN Throw(st)
    ELSE [st EXCEPT !.log = Append(@, [msg |-> msg, node |-> node])]

\* new Scope(node, parent, id): the new object is the last of the heap
AllocScope(st, node, parent, id) ==
    [st EXCEPT !.scopes = Append(@, NewScopeRec(node, parent, id))]

\* the nearest proper ancestor of n with the given AstType (0 = none)
RECURSIVE Ancestor(_, _)
Ancestor(n, type) ==
    LET pn == ast[n].parent
    IN IF pn = 0 THEN 0
       ELSE IF ast[pn].type = type THEN pn
       ELSE Ancestor(pn, type)

\* parseInt on a token's characters: optional sign, then the leading digits
Digits == <<"0", "1", "2", "3", "4", "5", "6", "7", "8", "9">>

DigitVal(c) == (CHOOSE i \in 1..10 : Digits[i] = c) - 1

IsDigit(c) == \E i \in 1..10 : Digits[i] = c

RECURSIVE ParseDigits(_, _, _)
ParseDigits(cs, i, acc) ==
    IF i <= Len(cs) /\ IsDigit(cs[i])
    THEN ParseDigits(cs, i + 1, acc * 10 + DigitVal(cs[i]))
    ELSE acc

parseInt(cs) ==
    IF Len(cs) > 0 /\ cs[1] = "-" THEN 0 - ParseDigits(cs, 2, 0)
    ELSE ParseDigits(cs, 1, 0)

(***************************************************************************)
(* getSize and makeStructScope                                             *)
(***************************************************************************)
\* getSize reads the scopes and writes only the log, so it is computed over
\* the scope heap sc and returns [size, log, err]: the size, the diagnostics
\* logged on the way in their order, and whether it threw.
\*
\* The recursion of getSize descends one struct per depth.  It is evaluated
\* level by level: FieldSums(sc, d, deeper) is, for every declared struct, the
\* outcome of its loop  for (let field of struct.fields) size +=
\* this.getSize(field, field.scope, d),  given the table `deeper` of the
\* same loops run with d + 1.
StructKeys(sc) == UNION {{<<h, id>> : id \in DOMAIN sc[h].structs} : h \in 1..Len(sc)}

NoSize == [size |-> 0, log |-> <<>>, err |-> FALSE]

\* mutant: the descent is not cut at MAX_TYPE_DEPTH
getSizeWith_NoDepthCut(sc, v, p, depth, deeper) ==
    IF v.type \in {DT_Int, DT_UInt, DT_Float, DT_Bool} THEN [NoSize EXCEPT !.size = 4]
    ELSE IF v.type \in {DT_Long, DT_ULong, DT_Double} THEN [NoSize EXCEPT !.size = 8]
    ELSE IF isPrimitive(v.type) THEN NoSize
    ELSE LET h == Scope_getStruct(sc, p, v.type)
         IN IF h = 0
            THEN IF v.node # 0
                 THEN [NoSize EXCEPT !.log = <<[msg |-> "No struct named", node |-> v.node]>>]
                 ELSE NoSize
            ELSE IF h = Inherited THEN [NoSize EXCEPT !.err = TRUE]
            ELSE deeper[<<h, v.type>>]

\* this.getSize(v, p, depth), given the table of the loops run with depth + 1
getSizeWith(sc, v, p, depth, deeper) ==
    IF depth > MAX_TYPE_DEPTH THEN NoSize
    ELSE IF v.type \in {DT_Int, DT_UInt, DT_Float, DT_Bool} THEN [NoSize EXCEPT !.size = 4]
    ELSE IF v.type \in {DT_Long, DT_ULong, DT_Double} THEN [NoSize EXCEPT !.size = 8]
    ELSE IF isPrimitive(v.type) THEN NoSize
    ELSE LET h == Scope_getStruct(sc, p, v.type)
         IN IF h = 0
            THEN IF v.node # 0
                 THEN [NoSize EXCEPT !.log = <<[msg |-> "No struct named", node |-> v.node]>>]
                 ELSE NoSize
            \* struct.fields is undefined and cannot be iterated
            ELSE IF h = Inherited THEN [NoSize EXCEPT !.err = TRUE]
            ELSE deeper[<<h, v.type>>]

\* the loop over fields 1..k, each sized with the given depth
RECURSIVE getSizeFields(_, _, _, _, _)
getSizeFields(sc, fields, k, depth, deeper) ==
    IF k = 0 THEN NoSize
    ELSE LET r0 == getSizeFields(sc, fields, k - 1, depth, deeper)
         IN IF r0.err THEN r0
            ELSE With(getSizeWith(sc, fields[k], fields[k].scope, depth, deeper), LAMBDA r1 :
                    [size |-> r0.size + r1.size, log |-> r0.log \o r1.log, err |-> r1.err])

FieldSums(sc, depth, deeper) ==
    [key \in StructKeys(sc) |->
        LET fields == sc[key[1]].structs[key[2]].fields
        IN getSizeFields(sc, fields, Len(fields), depth, deeper)]

\* the table for depth lo, from the table `top` for depth hi + 1 (the range
\* is halved, and the upper half computed first, so that the evaluation
\* stays shallow)
RECURSIVE FieldSumsFrom(_, _, _, _)
FieldSumsFrom(sc, lo, hi, top) ==
    IF lo > hi THEN top
    ELSE IF lo = hi THEN FieldSums(sc, lo, top)
    ELSE LET mid == (lo + hi) \div 2
             upper == FieldSumsFrom(sc, mid + 1, hi, top)
         IN IF upper = upper THEN FieldSumsFrom(sc, lo, mid, upper) ELSE upper

\* beyond MAX_TYPE_DEPTH every getSize returns 0, so every loop sums to 0
getSizeOn(sc, v, p, depth) ==
    LET beyond == [key \in StructKeys(sc) |-> NoSize]
    IN getSizeWith(sc, v, p, depth,
                   FieldSumsFrom(sc, depth + 1, MAX_TYPE_DEPTH + 1, beyond))

getSize(st, v, p, depth) ==
    With(getSizeOn(st.scopes, v, p, depth), LAMBDA r :
        [size |-> r.size, st |-> [st EXCEPT !.log = @ \o r.log, !.err = r.err]])

\* mutant: the cursor is not advanced, every field gets the offset of v
RECURSIVE makeStructFields_SameOffset(_, _, _, _, _, _)
makeStructFields_SameOffset(st, v, scope, fields, k, offset) ==
    IF k > Len(fields) THEN st
    ELSE LET nvar == [NewVariable(0, scope, fields[k].id, fields[k].type)
                        EXCEPT !.const = v.const, !.export = v.export,
                               !.mapped = v.mapped, !.offset = offset]
             s1 == [st EXCEPT !.scopes[scope].vars = VarPut(@, nvar)]
         IN With(getSize(s1, nvar, scope, 0), LAMBDA r :
               IF r.st.err THEN r.st
               ELSE makeStructFields_SameOffset(r.st, v, scope, fields, k + 1, offset))

\* the loop over struct.fields of makeStructScope, from field k on
RECURSIVE makeStructFields(_, _, _, _, _, _)
makeStructFields(st, v, scope, fields, k, offset) ==
    IF k > Len(fields) THEN st
    ELSE LET nvar == [NewVariable(0, scope, fields[k].id, fields[k].type)
                        EXCEPT !.const = v.const, !.export = v.export,
                               !.mapped = v.mapped, !.offset = offset]
             s1 == [st EXCEPT !.scopes[scope].vars = VarPut(@, nvar)]
         IN With(getSize(s1, nvar, scope, 0), LAMBDA r :
               IF r.st.err THEN r.st
               ELSE makeStructFields(r.st, v, scope, fields, k + 1, offset + r.size))

makeStructScope(st, v, p) ==
    IF isPrimitive(v.type) THEN st
    ELSE LET h == Scope_getStruct(st.scopes, p, v.type)
         IN IF h = 0
            THEN (IF v.node # 0 THEN logError(st, "No struct named", v.node) ELSE st)
            \* struct.fields is undefined and cannot be iterated
            ELSE IF h = Inherited THEN Throw(st)
            ELSE With(AllocScope(st, v.node, p, v.id), LAMBDA s1 :
                    LET struct == st.scopes[h].structs[v.type]
                        scope == Len(s1.scopes)
                        s2 == [s1 EXCEPT !.scopes[p].scopes = MapPut(@, v.id, scope)]
                    IN makeStructFields(s2, v, scope, struct.fields, 1, v.offset))

(***************************************************************************)
(* Scope rules (registerScope calls of the SchwaAnalyzer constructor).     *)
(* Each takes the node n, the parent scope p and the state, and returns    *)
(* the state with n.scope set to the rule's result.                        *)
(***************************************************************************)
SetScope(st, n, s) == [st EXCEPT !.nscope[n] = s]

\* a Program rule that opens no scope of its own and hands its parent's on
ScopeRule_Program_NoScope(n, p, st) ==
    SetScope(st, n, p)

ScopeRule_Program(n, p, st) ==
    With(AllocScope(st, n, p, ""), LAMBDA s1 :
        LET scope == Len(s1.scopes)
        IN SetScope([s1 EXCEPT !.scopes[p].scopes = MapPut(@, "", scope)], n, scope))

ScopeRule_Block(n, p, st) ==
    With(AllocScope(st, n, p, ""), LAMBDA s1 :
        LET scope == Len(s1.scopes)
        IN SetScope([s1 EXCEPT !.scopes[p].scopes = MapPut(@, "", scope)], n, scope))

\* the VariableDef children of a field list, as node ids
VariableDefsOf(list) ==
    SelectSeq(ast[list].children, LAMBDA c : ast[c].type = "VariableDef")

ScopeRule_StructDef(n, p, st) ==
    IF child(n, 0) = 0 \/ child(n, 1) = 0 THEN Throw(st)
    ELSE LET fieldNodes == VariableDefsOf(child(n, 1))
         IN IF \E i \in 1..Len(fieldNodes) : child(fieldNodes[i], 0) = 0 THEN Throw(st)
            ELSE
            With(AllocScope(st, n, p, ast[child(n, 0)].tok), LAMBDA s1 :
                LET id == ast[child(n, 0)].tok
                    scope == Len(s1.scopes)
                    fields == [i \in 1..Len(fieldNodes) |->
                                  NewVariable(n, scope, ast[child(fieldNodes[i], 0)].tok,
                                              ast[fieldNodes[i]].tok)]
                    struct == NewStruct(n, scope, id, fields)
                    s2 == IF HasKey(s1.scopes[p].structs, id)
                          THEN logError(s1, "A struct with the name already exists", n)
                          ELSE [s1 EXCEPT !.scopes[p].structs = MapPut(@, id, struct),
                                          !.scopes[p].scopes = MapPut(@, id, scope)]
                IN SetScope(s2, n, scope))

ScopeRule_FunctionDef(n, p, st) ==
    IF child(n, 0) = 0 \/ child(n, 1) = 0 THEN Throw(st)
    ELSE LET paramNodes == ast[child(n, 1)].children
         IN IF \E i \in 1..Len(paramNodes) : child(paramNodes[i], 0) = 0 THEN Throw(st)
            ELSE
            With(AllocScope(st, n, p, ast[child(n, 0)].tok), LAMBDA s1 :
                LET id == ast[child(n, 0)].tok
                    scope == Len(s1.scopes)
                    params == [i \in 1..Len(paramNodes) |->
                                  NewVariable(n, scope, ast[child(paramNodes[i], 0)].tok,
                                              ast[paramNodes[i]].tok)]
                    func == NewFunction(n, scope, id, ast[n].tok, params)
                    s2 == IF HasKey(s1.scopes[p].funcs, id)
                          THEN logError(s1, "A function with the name already exists", n)
                          ELSE [s1 EXCEPT !.scopes[p].funcs = MapPut(@, id, func),
                                          !.scopes[p].scopes = MapPut(@, id, scope)]
                IN SetScope(s2, n, scope))

ScopeRule_VariableDef(n, p, st) ==
    IF child(n, 0) = 0 THEN Throw(st)
    ELSE LET id == ast[child(n, 0)].tok
             glob == Ancestor(n, "Global")
             map == Ancestor(n, "Map")
             v0 == NewVariable(n, p, id, ast[n].tok)
             v1 == IF glob # 0 THEN [v0 EXCEPT !.global = TRUE] ELSE v0
             v2 == IF map # 0
                   THEN [v1 EXCEPT !.global = TRUE, !.mapped = TRUE,
                                   !.offset = IF Len(ast[map].children) >= 2
                                              THEN parseInt(ast[child(map, 1)].chars)
                                              ELSE @]
                   ELSE v1
             s1 == IF HasVar(st.scopes[p].vars, id)
                   THEN logError(st, "A variable with the name already exists", n)
                   ELSE [st EXCEPT !.scopes[p].vars = VarPut(@, v2)]
         IN SetScope(s1, n, p)

\* mutant: the variable's struct scope is built on every access
ScopeRule_Access_Rematerialize(n, p, st) ==
    IF child(n, 0) = 0 THEN Throw(st)
    ELSE LET id == ast[child(n, 0)].tok
             h == Scope_getVariable(st.scopes, p, id)
         IN With(IF h > 0 THEN makeStructScope(st, VarAt(st.scopes, h, id), p)
                 ELSE st, LAMBDA s1 :
               LET scope1 == Scope_getScope(s1.scopes, p, id)
               IN IF scope1 # 0 THEN SetScope(s1, n, scope1)
                  ELSE SetScope(logError(s1, "No scope named", n), n, p))

ScopeRule_Access(n, p, st) ==
    IF child(n, 0) = 0 THEN Throw(st)
    ELSE LET id == ast[child(n, 0)].tok
             scope == Scope_getScope(st.scopes, p, id)
         IN IF scope # 0 THEN SetScope(st, n, scope)
            ELSE LET h == Scope_getVariable(st.scopes, p, id)
                 IN With(IF h > 0 THEN makeStructScope(st, VarAt(st.scopes, h, id), p)
                         ELSE st, LAMBDA s1 :
                       LET scope1 == Scope_getScope(s1.scopes, p, id)
                       IN IF h # 0 /\ scope1 # 0 THEN SetScope(s1, n, scope1)
                          ELSE SetScope(logError(s1, "No scope named", n), n, p))

\* while (node && node.children) node = node.children[0] : every node's
\* children is an array, and an array (even an empty one) is truthy, so the
\* descent only stops when node.children[0] is undefined.
RECURSIVE LeftmostDescent(_)
LeftmostDescent(node) ==
    IF node # 0 THEN LeftmostDescent(child(node, 0)) ELSE node

ScopeRule_Const(n, p, st) ==
    LET node == LeftmostDescent(ast[n].parent)
    IN IF node # 0
       THEN LET h == Scope_getVariable(st.scopes, p, ast[node].tok)
            IN SetScope(IF h > 0
                        THEN [st EXCEPT !.scopes[h].vars[VarPos(st.scopes[h].vars,
                                                                ast[node].tok)].const = TRUE]
                        ELSE st, n, p)
       ELSE SetScope(st, n, p)

ScopeRule_Export(n, p, st) ==
    LET node == LeftmostDescent(ast[n].parent)
    IN IF node # 0
       THEN LET id == ast[node].tok
                hv == Scope_getVariable(st.scopes, p, id)
                hf == Scope_getFunction(st.scopes, p, id)
                hs == Scope_getStruct(st.scopes, p, id)
                s1 == IF hv > 0
                      THEN [st EXCEPT !.scopes[hv].vars[VarPos(st.scopes[hv].vars, id)].export = TRUE]
                      ELSE st
                s2 == IF hf > 0 THEN [s1 EXCEPT !.scopes[hf].funcs[id].export = TRUE] ELSE s1
                s3 == IF hs > 0 THEN [s2 EXCEPT !.scopes[hs].structs[id].export = TRUE] ELSE s2
            IN SetScope(s3, n, p)
       ELSE SetScope(st, n, p)

\* scopeRuleMap[node.type], applied in registration order (one rule per type)
applyScopeRules(n, p, st) ==
    LET t == ast[n].type
    IN \* p is a function object: p.scopes and p.vars are undefined, p.getScope
       \* is no function; only the Const and Export rules do not touch p
       CASE p = Inherited /\ t \in {"Program", "Block", "StructDef", "FunctionDef",
                                     "VariableDef", "Access"} -> Throw(st)
         [] p = Inherited /\ t \in {"Const", "Export"} -> SetScope(st, n, p)
         [] p # Inherited /\ t = "Program" -> ScopeRule_Program(n, p, st)
         [] p # Inherited /\ t = "Block" -> ScopeRule_Block(n, p, st)
         [] p # Inherited /\ t = "StructDef" -> ScopeRule_StructDef(n, p, st)
         [] p # Inherited /\ t = "FunctionDef" -> ScopeRule_FunctionDef(n, p, st)
         [] p # Inherited /\ t = "VariableDef" -> ScopeRule_VariableDef(n, p, st)
         [] p # Inherited /\ t = "Access" -> ScopeRule_Access(n, p, st)
         [] p # Inherited /\ t = "Const" -> ScopeRule_Const(n, p, st)
         [] p # Inherited /\ t = "Export" -> ScopeRule_Export(n, p, st)
         [] OTHER -> st

RECURSIVE getScope(_, _)
getScope(n, st) ==
    IF st.err \/ st.nscope[n] # 0 THEN st
    ELSE With(IF ast[n].parent # 0 THEN getScope(ast[n].parent, st) ELSE st, LAMBDA s0 :
            LET parentScope == IF ast[n].parent # 0 THEN s0.nscope[ast[n].parent]
                               ELSE rootScope
            IN IF s0.err THEN s0
               ELSE With(applyScopeRules(n, parentScope, s0), LAMBDA s1 :
                       IF s1.err THEN s1
                       ELSE IF s1.nscope[n] = 0 THEN SetScope(s1, n, parentScope)
                       ELSE s1))

(***************************************************************************)
(* Type-set tables (SchwaAnalyzer constructor)                             *)
(***************************************************************************)
intTypeSet == <<DT_Int, DT_Int, DT_Int>>
uintTypeSet == <<DT_UInt, DT_UInt, DT_UInt>>
longTypeSet == <<DT_Long, DT_Long, DT_Long>>
ulongTypeSet == <<DT_ULong, DT_ULong, DT_ULong>>
floatTypeSet == <<DT_Float, DT_Float, DT_Float>>
doubleTypeSet == <<DT_Double, DT_Double, DT_Double>>
fixedTypeSets == <<intTypeSet, uintTypeSet, longTypeSet, ulongTypeSet>>
floatingTypeSets == <<floatTypeSet, doubleTypeSet>>
signedTypeSets == <<intTypeSet, longTypeSet, floatTypeSet, doubleTypeSet>>
numberTypeSets ==
    <<intTypeSet, uintTypeSet, longTypeSet, ulongTypeSet, floatTypeSet, doubleTypeSet>>
boolTypeSet == <<DT_Bool, DT_Bool, DT_Bool>>
compareSets ==
    <<<<DT_Int, DT_Int, DT_Bool>>, <<DT_UInt, DT_UInt, DT_Bool>>,
      <<DT_Long, DT_Long, DT_Bool>>, <<DT_ULong, DT_ULong, DT_Bool>>,
      <<DT_Float, DT_Float, DT_Bool>>, <<DT_Double, DT_Double, DT_Bool>>>>

\* mutant: each pair converts in one direction only
AsTable_OneWay ==
    <<<<DT_Int, DT_UInt, DT_UInt>>, <<DT_Int, DT_Float, DT_Float>>,
      <<DT_UInt, DT_Float, DT_Float>>,
      <<DT_Long, DT_ULong, DT_ULong>>, <<DT_Long, DT_Double, DT_Double>>,
      <<DT_ULong, DT_Double, DT_Double>>>>

\* the rows of the `as` rule: <<t0, t1, result>>
AsTable ==
    <<<<DT_Int, DT_UInt, DT_UInt>>, <<DT_Int, DT_Float, DT_Float>>,
      <<DT_UInt, DT_Int, DT_Int>>, <<DT_UInt, DT_Float, DT_Float>>,
      <<DT_Long, DT_ULong, DT_ULong>>, <<DT_Long, DT_Double, DT_Double>>,
      <<DT_ULong, DT_Long, DT_Long>>, <<DT_ULong, DT_Double, DT_Double>>,
      <<DT_Float, DT_Int, DT_Int>>, <<DT_Float, DT_UInt, DT_UInt>>,
      <<DT_Double, DT_Long, DT_Long>>, <<DT_Double, DT_ULong, DT_ULong>>>>

\* the rows of the `to` rule
ToTable ==
    <<<<DT_Int, DT_Long, DT_Long>>, <<DT_Int, DT_ULong, DT_ULong>>,
      <<DT_Int, DT_Float, DT_Float>>, <<DT_Int, DT_Double, DT_Double>>,
      <<DT_UInt, DT_Long, DT_Long>>, <<DT_UInt, DT_ULong, DT_ULong>>,
      <<DT_UInt, DT_Float, DT_Float>>, <<DT_UInt, DT_Double, DT_Double>>,
      <<DT_Long, DT_Int, DT_Int>>, <<DT_Long, DT_UInt, DT_UInt>>,
      <<DT_Long, DT_Float, DT_Float>>, <<DT_Long, DT_Double, DT_Double>>,
      <<DT_ULong, DT_Int, DT_Int>>, <<DT_ULong, DT_UInt, DT_UInt>>,
      <<DT_ULong, DT_Float, DT_Float>>, <<DT_ULong, DT_Double, DT_Double>>,
      <<DT_Float, DT_Int, DT_Int>>, <<DT_Float, DT_UInt, DT_UInt>>,
      <<DT_Float, DT_Long, DT_Long>>, <<DT_Float, DT_ULong, DT_ULong>>,
      <<DT_Float, DT_Double, DT_Double>>,
      <<DT_Double, DT_Int, DT_Int>>, <<DT_Double, DT_UInt, DT_UInt>>,
      <<DT_Double, DT_Long, DT_Long>>, <<DT_Double, DT_ULong, DT_ULong>>,
      <<DT_Double, DT_Float, DT_Float>>>>

\* registerDataTypeUnaryOp calls, in registration order
UnaryOpRules ==
    <<[kind |-> "UnaryOp", tok |-> "Neg", sets |-> signedTypeSets],
      [kind |-> "UnaryOp", tok |-> "NOT", sets |-> fixedTypeSets],
      [kind |-> "UnaryOp", tok |-> "Not", sets |-> <<boolTypeSet>>]>>

\* registerDataTypeBinaryOp calls, then the `as` and `to` rules, in
\* registration order
BinaryOpRules ==
    <<[kind |-> "BinaryOp", tok |-> "Add", sets |-> numberTypeSets],
      [kind |-> "BinaryOp", tok |-> "Sub", sets |-> numberTypeSets],
      [kind |-> "BinaryOp", tok |-> "Mul", sets |-> numberTypeSets],
      [kind |-> "BinaryOp", tok |-> "Div", sets |-> numberTypeSets],
      [kind |-> "BinaryOp", tok |-> "Mod", sets |-> fixedTypeSets],
      [kind |-> "BinaryOp", tok |-> "AND", sets |-> fixedTypeSets],
      [kind |-> "BinaryOp", tok |-> "OR", sets |-> fixedTypeSets],
      [kind |-> "BinaryOp", tok |-> "XOR", sets |-> fixedTypeSets],
      [kind |-> "BinaryOp", tok |-> "NOT", sets |-> fixedTypeSets],
      [kind |-> "BinaryOp", tok |-> "ShL", sets |-> fixedTypeSets],
      [kind |-> "BinaryOp", tok |-> "ShR", sets |-> fixedTypeSets],
      [kind |-> "BinaryOp", tok |-> "RotL", sets |-> fixedTypeSets],
      [kind |-> "BinaryOp", tok |-> "RotR", sets |-> fixedTypeSets],
      [kind |-> "BinaryOp", tok |-> "Eq", sets |-> compareSets \o <<boolTypeSet>>],
      [kind |-> "BinaryOp", tok |-> "Ne", sets |-> compareSets \o <<boolTypeSet>>],
      [kind |-> "BinaryOp", tok |-> "Lt", sets |-> compareSets],
      [kind |-> "BinaryOp", tok |-> "Le", sets |-> compareSets],
      [kind |-> "BinaryOp", tok |-> "Gt", sets |-> compareSets],
      [kind |-> "BinaryOp", tok |-> "Ge", sets |-> compareSets],
      [kind |-> "BinaryOp", tok |-> "And", sets |-> <<boolTypeSet>>],
      [kind |-> "BinaryOp", tok |-> "Or", sets |-> <<boolTypeSet>>],
      [kind |-> "Cast", tok |-> "As", sets |-> AsTable],
      [kind |-> "Cast", tok |-> "To", sets |-> ToTable]>>

Single(kind) == <<[kind |-> kind, tok |-> "", sets |-> <<>>]>>

\* dataTypeRuleMap[type]
dataTypeRules(type) ==
    IF type = "UnaryOp" THEN UnaryOpRules
    ELSE IF type = "BinaryOp" THEN BinaryOpRules
    ELSE IF type \in {"Access", "VariableId", "FunctionId", "StructId", "Type",
                      "VariableDef", "FunctionDef", "StructDef", "Literal",
                      "Assignment", "Global", "FunctionCall", "Return", "ReturnVoid"}
         THEN Single(type)
    ELSE <<>>

(***************************************************************************)
(* Type rules.  A rule returns [st, ret]: the threaded state and the       *)
(* returned type ("" for null / undefined).                                *)
(***************************************************************************)
Ret(st, ret) == [st |-> st, ret |-> ret]

SetDataType(st, n, t) == [st EXCEPT !.ndt[n] = t]

\* -1: getIdentifier read .type of undefined (throws); 0: null
RECURSIVE getIdentifier(_)
getIdentifier(node) ==
    IF node = 0 THEN -1
    ELSE IF ast[node].type \in {"FunctionId", "VariableId"} THEN node
    ELSE IF ast[node].type = "Access" THEN getIdentifier(child(node, 1))
    ELSE 0

\* index of the first row of a table whose inputs match (0 = none)
FirstRow1(sets, t) ==
    IF \E i \in 1..Len(sets) : sets[i][1] = t
    THEN CHOOSE i \in 1..Len(sets) :
            sets[i][1] = t /\ \A j \in 1..(i - 1) : sets[j][1] # t
    ELSE 0

\* mutant: a row matches on its left input alone
FirstRow2_LeftOnly(sets, t0, t1) == FirstRow1(sets, t0)

FirstRow2(sets, t0, t1) ==
    IF \E i \in 1..Len(sets) : sets[i][1] = t0 /\ sets[i][2] = t1
    THEN CHOOSE i \in 1..Len(sets) :
            /\ sets[i][1] = t0 /\ sets[i][2] = t1
            /\ \A j \in 1..(i - 1) : ~(sets[j][1] = t0 /\ sets[j][2] = t1)
    ELSE 0

RECURSIVE getDataType(_, _)

TypeRule_Access(n, st) ==
    IF Len(ast[n].children) >= 2
    THEN LET node == getIdentifier(n)
         IN IF node = -1 THEN Ret(Throw(st), "")
            ELSE IF node # 0
            THEN With(getDataType(node, st), LAMBDA s1 : Ret(s1, IF s1.err THEN "" ELSE s1.ndt[node]))
            ELSE Ret(st, DT_Invalid)
    ELSE Ret(st, DT_Invalid)

TypeRule_VariableId(n, st) ==
    With(getScope(n, st), LAMBDA s1 :
        LET h == IF s1.err \/ s1.nscope[n] = Inherited THEN 0
                 ELSE Scope_getVariable(s1.scopes, s1.nscope[n], ast[n].tok)
        IN IF s1.err THEN Ret(s1, "")
           \* the scope is a function object: it has no getVariable to call
           ELSE IF s1.nscope[n] = Inherited THEN Ret(Throw(s1), "")
           \* the function object read from Object.prototype has no such
           \* property: the rule returns undefined
           ELSE IF h = Inherited THEN Ret(s1, "")
           ELSE IF h # 0 THEN Ret(s1, VarAt(s1.scopes, h, ast[n].tok).type)
           ELSE Ret(logError(s1, "No variable named", n), DT_Invalid))

TypeRule_FunctionId(n, st) ==
    With(getScope(n, st), LAMBDA s1 :
        LET h == IF s1.err \/ s1.nscope[n] = Inherited THEN 0
                 ELSE Scope_getFunction(s1.scopes, s1.nscope[n], ast[n].tok)
        IN IF s1.err THEN Ret(s1, "")
           \* the scope is a function object: it has no getFunction to call
           ELSE IF s1.nscope[n] = Inherited THEN Ret(Throw(s1), "")
           \* the function object read from Object.prototype has no such
           \* property: the rule returns undefined
           ELSE IF h = Inherited THEN Ret(s1, "")
           ELSE IF h # 0 THEN Ret(s1, s1.scopes[h].funcs[ast[n].tok].type)
           ELSE Ret(logError(s1, "No function named", n), DT_Invalid))

TypeRule_StructId(n, st) ==
    With(getScope(n, st), LAMBDA s1 :
        LET h == IF s1.err \/ s1.nscope[n] = Inherited THEN 0
                 ELSE Scope_getStruct(s1.scopes, s1.nscope[n], ast[n].tok)
        IN IF s1.err THEN Ret(s1, "")
           \* the scope is a function object: it has no getStruct to call
           ELSE IF s1.nscope[n] = Inherited THEN Ret(Throw(s1), "")
           \* the function object read from Object.prototype has no such
           \* property: the rule returns undefined
           ELSE IF h = Inherited THEN Ret(s1, "")
           ELSE IF h # 0 THEN Ret(s1, s1.scopes[h].structs[ast[n].tok].id)
           ELSE Ret(logError(s1, "No struct named", n), DT_Invalid))

TypeRule_Type(n, st) == Ret(st, DT_Type)

TypeRule_VariableDef(n, st) == Ret(st, ast[n].tok)

TypeRule_FunctionDef(n, st) == Ret(st, ast[n].tok)

TypeRule_StructDef(n, st) ==
    IF child(n, 0) = 0 THEN Ret(Throw(st), "") ELSE Ret(st, ast[child(n, 0)].tok)

TypeRule_Literal(n, st) == Ret(st, fromTokenType(ast[n].tt))

\* mutant: unlike valid types are let through with the left type
AssignmentTypes_NoMismatch(n, st) ==
    With(getDataType(child(n, 0), st), LAMBDA s1 :
    With(getDataType(child(n, 1), s1), LAMBDA s2 :
          IF s2.err THEN Ret(s2, "")
          ELSE LET t0 == s2.ndt[child(n, 0)]
                   t1 == s2.ndt[child(n, 1)]
               IN IF t0 = DT_Invalid \/ t1 = DT_Invalid
                  THEN LET s3 == IF t0 = DT_Invalid
                                 THEN logError(s2, "Invalid left-hand side of assignment",
                                               child(n, 0))
                                 ELSE s2
                           s4 == IF t1 = DT_Invalid
                                 THEN logError(s3, "Invalid right-hand side of assignment",
                                               child(n, 1))
                                 ELSE s3
                       IN Ret(s4, DT_Invalid)
                  ELSE Ret(s2, t0)))

\* the tail shared by the Assignment and Global rules
AssignmentTypes(n, st) ==
    With(getDataType(child(n, 0), st), LAMBDA s1 :
    With(getDataType(child(n, 1), s1), LAMBDA s2 :
          IF s2.err THEN Ret(s2, "")
          ELSE LET t0 == s2.ndt[child(n, 0)]
                   t1 == s2.ndt[child(n, 1)]
               IN IF t0 = DT_Invalid \/ t1 = DT_Invalid
                  THEN LET s3 == IF t0 = DT_Invalid
                                 THEN logError(s2, "Invalid left-hand side of assignment",
                                               child(n, 0))
                                 ELSE s2
                           s4 == IF t1 = DT_Invalid
                                 THEN logError(s3, "Invalid right-hand side of assignment",
                                               child(n, 1))
                                 ELSE s3
                       IN Ret(s4, DT_Invalid)
                  ELSE IF t0 # t1
                  THEN Ret(logError(s2, "Both sides of an assignment must be of the same type", n),
                           DT_Invalid)
                  ELSE Ret(s2, t0)))

TypeRule_Assignment(n, st) ==
    LET ident == getIdentifier(child(n, 0))
    IN IF ident = -1 THEN Ret(Throw(st), "")
       ELSE With(IF ident # 0 THEN getScope(ident, st) ELSE st, LAMBDA s1 :
               LET foreign == ident # 0 /\ ~s1.err /\ s1.nscope[ident] = Inherited
                   h == IF ident # 0 /\ ~s1.err /\ ~foreign
                        THEN Scope_getVariable(s1.scopes, s1.nscope[ident], ast[ident].tok)
                        ELSE 0
               IN IF s1.err THEN Ret(s1, "")
                  ELSE IF foreign THEN Ret(Throw(s1), "")
                  ELSE IF h > 0 /\ VarAt(s1.scopes, h, ast[ident].tok).const
                  THEN Ret(logError(s1, "Constant globals cannot be assigned to", n), DT_Invalid)
                  ELSE AssignmentTypes(n, s1))

TypeRule_Global(n, st) == AssignmentTypes(n, st)

TypeRule_Cast(type, table, n, st) ==
    IF st.ndt[n] # "" \/ ast[n].tt # type THEN Ret(st, st.ndt[n])
    ELSE With(getDataType(child(n, 0), st), LAMBDA s1 :
            IF s1.err THEN Ret(s1, "")
            ELSE IF child(n, 1) = 0 THEN Ret(Throw(s1), "")
            ELSE LET t0 == s1.ndt[child(n, 0)]
                     t1a == IF ast[child(n, 1)].type = "Type" THEN ast[child(n, 1)].tok
                            ELSE DT_Invalid
                     t1 == IF t1a = DT_Bool THEN DT_Invalid ELSE t1a
                     row == FirstRow2(table, t0, t1)
                 IN IF row # 0 THEN Ret(s1, table[row][3])
                    ELSE LET s2 == IF t0 = DT_Invalid
                                   THEN logError(s1, "Invalid value argument to operator",
                                                 child(n, 0))
                                   ELSE s1
                             s3 == IF t1 = DT_Invalid
                                   THEN logError(s2, "Invalid type argument to operator",
                                                 child(n, 1))
                                   ELSE s2
                         IN Ret(s3, DT_Invalid))

\* mutant: the loop stops at the first mismatching position
RECURSIVE CheckArguments_StopAtFirst(_, _, _, _)
CheckArguments_StopAtFirst(st, func, args, k) ==
    IF k = 0 THEN [st |-> st, valid |-> TRUE]
    ELSE With(CheckArguments_StopAtFirst(st, func, args, k - 1), LAMBDA r0 :
         With(IF ~r0.valid THEN r0.st ELSE getDataType(child(args, k - 1), r0.st), LAMBDA s1 :
            LET arg == child(args, k - 1)
            IN IF s1.err \/ ~r0.valid THEN [st |-> s1, valid |-> FALSE]
               ELSE IF s1.ndt[arg] # func.params[k].type
               THEN [st |-> logError(s1, "The parameter of function is type, not", arg),
                     valid |-> FALSE]
               ELSE [st |-> s1, valid |-> r0.valid]))

\* the loop over the parameters of the FunctionCall rule, positions 0..k-1
RECURSIVE CheckArguments(_, _, _, _)
CheckArguments(st, func, args, k) ==
    IF k = 0 THEN [st |-> st, valid |-> TRUE]
    ELSE With(CheckArguments(st, func, args, k - 1), LAMBDA r0 :
         With(getDataType(child(args, k - 1), r0.st), LAMBDA s1 :
            LET arg == child(args, k - 1)
            IN IF s1.err THEN [st |-> s1, valid |-> FALSE]
               ELSE IF s1.ndt[arg] # func.params[k].type
               THEN [st |-> logError(s1, "The parameter of function is type, not", arg),
                     valid |-> FALSE]
               ELSE [st |-> s1, valid |-> r0.valid]))

TypeRule_FunctionCall(n, st) ==
    LET ident == getIdentifier(child(n, 0))
    IN IF ident = -1 THEN Ret(Throw(st), "")
       ELSE IF ident = 0 THEN Ret(logError(st, "Invalid function identifier", n), DT_Invalid)
       ELSE With(getScope(ident, st), LAMBDA s1 :
               LET foreign == ~s1.err /\ s1.nscope[ident] = Inherited
                   h == IF s1.err \/ foreign THEN 0
                        ELSE Scope_getFunction(s1.scopes, s1.nscope[ident], ast[ident].tok)
               IN IF s1.err THEN Ret(s1, "")
                  ELSE IF foreign THEN Ret(Throw(s1), "")
                  \* func.params is undefined: reading its length throws
                  ELSE IF h = Inherited THEN Ret(Throw(s1), "")
                  ELSE IF h = 0 THEN Ret(logError(s1, "No function named", n), DT_Invalid)
                  ELSE IF child(n, 1) = 0 THEN Ret(Throw(s1), "")
                  ELSE LET func == s1.scopes[h].funcs[ast[ident].tok]
                           args == child(n, 1)
                       IN IF Len(func.params) # Len(ast[args].children)
                          THEN Ret(logError(s1, "Function takes arguments, not", n), DT_Invalid)
                          ELSE With(CheckArguments(s1, func, args, Len(func.params)), LAMBDA r :
                                  IF r.st.err THEN Ret(r.st, "")
                                  ELSE IF r.valid THEN Ret(r.st, func.type)
                                  ELSE Ret(r.st, DT_Invalid)))

\* mutant: a value may be returned from a void function
TypeRule_Return_VoidAllowed(n, st) ==
    With(getDataType(child(n, 0), st), LAMBDA s1 :
        LET p == Ancestor(n, "FunctionDef")
        IN IF s1.err THEN Ret(s1, "")
           ELSE LET t == s1.ndt[child(n, 0)]
                IN IF p # 0 /\ t # ast[p].tok
                   THEN IF child(p, 0) = 0 THEN Ret(Throw(s1), "")
                        ELSE Ret(logError(s1, "Type of return value does not match function's return type",
                                          child(n, 0)), DT_Invalid)
                   ELSE Ret(s1, t))

TypeRule_Return(n, st) ==
    With(getDataType(child(n, 0), st), LAMBDA s1 :
        LET p == Ancestor(n, "FunctionDef")
        IN IF s1.err THEN Ret(s1, "")
           ELSE LET t == s1.ndt[child(n, 0)]
                IN IF p # 0 /\ (t # ast[p].tok \/ ast[p].tok = DT_None)
                   THEN IF child(p, 0) = 0 THEN Ret(Throw(s1), "")
                        ELSE Ret(logError(s1, "Type of return value does not match function's return type",
                                          child(n, 0)), DT_Invalid)
                   ELSE Ret(s1, t))

TypeRule_ReturnVoid(n, st) ==
    LET p == Ancestor(n, "FunctionDef")
    IN IF p # 0 /\ ast[p].tok # DT_None
       THEN IF child(p, 0) = 0 THEN Ret(Throw(st), "")
            ELSE Ret(logError(st, "Type of return value does not match function's return type",
                              child(n, 0)), DT_Invalid)
       ELSE Ret(st, DT_None)

TypeRule_UnaryOp(type, typeSets, n, st) ==
    IF st.ndt[n] # "" \/ ast[n].tt # type THEN Ret(st, st.ndt[n])
    ELSE With(getDataType(child(n, 0), st), LAMBDA s1 :
            IF s1.err THEN Ret(s1, "")
            ELSE LET row == FirstRow1(typeSets, s1.ndt[child(n, 0)])
                 IN IF row # 0 THEN Ret(s1, typeSets[row][2])
                    ELSE Ret(logError(s1, "Invalid argument to operator", child(n, 0)),
                             DT_Invalid))

TypeRule_BinaryOp(type, typeSets, n, st) ==
    IF st.ndt[n] # "" \/ ast[n].tt # type THEN Ret(st, st.ndt[n])
    ELSE With(getDataType(child(n, 0), st), LAMBDA s1 :
         With(getDataType(child(n, 1), s1), LAMBDA s2 :
            IF s2.err THEN Ret(s2, "")
            ELSE LET row == FirstRow2(typeSets, s2.ndt[child(n, 0)], s2.ndt[child(n, 1)])
                 IN IF row # 0 THEN Ret(s2, typeSets[row][3])
                    ELSE Ret(logError(logError(s2, "Invalid 1st argument to operator",
                                               child(n, 0)),
                                      "Invalid 2nd argument to operator", child(n, 1)),
                             DT_Invalid)))

applyDataTypeRule(rule, n, st) ==
    LET k == rule.kind
    IN CASE k = "UnaryOp" -> TypeRule_UnaryOp(rule.tok, rule.sets, n, st)
         [] k = "BinaryOp" -> TypeRule_BinaryOp(rule.tok, rule.sets, n, st)
         [] k = "Cast" -> TypeRule_Cast(rule.tok, rule.sets, n, st)
         [] k = "Access" -> TypeRule_Access(n, st)
         [] k = "VariableId" -> TypeRule_VariableId(n, st)
         [] k = "FunctionId" -> TypeRule_FunctionId(n, st)
         [] k = "StructId" -> TypeRule_StructId(n, st)
         [] k = "Type" -> TypeRule_Type(n, st)
         [] k = "VariableDef" -> TypeRule_VariableDef(n, st)
         [] k = "FunctionDef" -> TypeRule_FunctionDef(n, st)
         [] k = "StructDef" -> TypeRule_StructDef(n, st)
         [] k = "Literal" -> TypeRule_Literal(n, st)
         [] k = "Assignment" -> TypeRule_Assignment(n, st)
         [] k = "Global" -> TypeRule_Global(n, st)
         [] k = "FunctionCall" -> TypeRule_FunctionCall(n, st)
         [] k = "Return" -> TypeRule_Return(n, st)
         [] k = "ReturnVoid" -> TypeRule_ReturnVoid(n, st)

\* for (let rule of rules) node.dataType = rule(node), for the rules lo..hi
\* of the list in order (the range is halved so that the evaluation stays
\* shallow)
RECURSIVE applyDataTypeRules(_, _, _, _, _)
applyDataTypeRules(rules, lo, hi, n, st) ==
    IF st.err \/ lo > hi THEN st
    ELSE IF lo = hi
    THEN With(applyDataTypeRule(rules[lo], n, st), LAMBDA r :
            IF r.st.err THEN r.st ELSE SetDataType(r.st, n, r.ret))
    ELSE With(applyDataTypeRules(rules, lo, (lo + hi) \div 2, n, st), LAMBDA s1 :
            applyDataTypeRules(rules, (lo + hi) \div 2 + 1, hi, n, s1))

\* The rules of the node's type that act on the node.  An operator rule for
\* another token than the node's returns n.dataType, so that the loop's
\* assignment node.dataType = rule(node) changes nothing: those rules are
\* left out of the loop.
RulesFor(node) ==
    SelectSeq(dataTypeRules(ast[node].type),
              LAMBDA r : r.kind \in {"UnaryOp", "BinaryOp", "Cast"} => r.tok = ast[node].tt)

\* mutant: a node no rule typed is left without a dataType
getDataType_NoDefault(node, st) ==
    IF st.err THEN st
    ELSE IF node = 0 THEN Throw(st)
    ELSE With(IF ~ast[node].valid THEN SetDataType(st, node, DT_Invalid) ELSE st, LAMBDA s0 :
            IF s0.ndt[node] # "" THEN s0
            ELSE With(RulesFor(node), LAMBDA rules :
                    applyDataTypeRules(rules, 1, Len(rules), node, s0)))

\* mutant: a dataType already present does not end the call
getDataType_NoShortCircuit(node, st) ==
    IF st.err THEN st
    ELSE IF node = 0 THEN Throw(st)
    ELSE With(IF ~ast[node].valid THEN SetDataType(st, node, DT_Invalid) ELSE st, LAMBDA s0 :
            With(RulesFor(node), LAMBDA rules :
            With(applyDataTypeRules(rules, 1, Len(rules), node, s0), LAMBDA s1 :
               IF s1.err THEN s1
               ELSE IF s1.ndt[node] = "" THEN SetDataType(s1, node, DT_None)
               ELSE s1)))

\* mutant: the valid flag is not looked at
getDataType_IgnoreValid(node, st) ==
    IF st.err THEN st
    ELSE IF node = 0 THEN Throw(st)
    ELSE IF st.ndt[node] # "" THEN st
    ELSE With(RulesFor(node), LAMBDA rules :
         With(applyDataTypeRules(rules, 1, Len(rules), node, st), LAMBDA s1 :
            IF s1.err THEN s1
            ELSE IF s1.ndt[node] = "" THEN SetDataType(s1, node, DT_None)
            ELSE s1))

getDataType(node, st) ==
    IF st.err THEN st
    ELSE IF node = 0 THEN Throw(st)
    ELSE With(IF ~ast[node].valid THEN SetDataType(st, node, DT_Invalid) ELSE st, LAMBDA s0 :
            IF s0.ndt[node] # "" THEN s0
            ELSE With(RulesFor(node), LAMBDA rules :
                 With(applyDataTypeRules(rules, 1, Len(rules), node, s0), LAMBDA s1 :
                    IF s1.err THEN s1
                    ELSE IF s1.ndt[node] = "" THEN SetDataType(s1, node, DT_None)
                    ELSE s1)))

(***************************************************************************)
(* Pass driver: analyze = hoistPass; scopePass; typePass; analysisPass.    *)
(* Node ids are pre-order positions, so each pass visits its nodes in      *)
(* increasing id; one step of the model is one visit.                      *)
(***************************************************************************)
\* a hoist pass that stops at the root and descends into no StructDef
HoistReached_RootOnly(n) ==
    ast[n].parent = 0

\* hoistPass reaches the root and, from a reached node, its StructDef children
RECURSIVE HoistReached(_)
HoistReached(n) ==
    \/ ast[n].parent = 0
    \/ ast[n].type = "StructDef" /\ HoistReached(ast[n].parent)

HoistOrder == SelectSeq([i \in 1..Len(ast) |-> i], HoistReached)

AllOrder == [i \in 1..Len(ast) |-> i]

Cur == [nscope |-> nscope, ndt |-> ndt, scopes |-> scopes, log |-> log, err |-> FALSE]

\* store the visit's outcome and move to the next visit, pass, or the end
Commit(st, order, nextpc) ==
    /\ nscope' = st.nscope
    /\ ndt' = st.ndt
    /\ scopes' = st.scopes
    /\ log' = st.log
    /\ ast' = ast
    /\ IF st.err THEN pc' = "thrown" /\ idx' = idx
       ELSE IF idx < Len(order) THEN pc' = pc /\ idx' = idx + 1
       ELSE pc' = nextpc /\ idx' = 1

hoistPass ==
    /\ pc = "hoist"
    /\ Commit(getScope(HoistOrder[idx], Cur), HoistOrder, "scope")

scopePass ==
    /\ pc = "scope"
    /\ Commit(getScope(AllOrder[idx], Cur), AllOrder, "type")

typePass ==
    /\ pc = "type"
    /\ Commit(getDataType(AllOrder[idx], Cur), AllOrder, "analysis")

\* analysisRuleMap is empty: SchwaAnalyzer registers no analysis rule
analysisPass ==
    /\ pc = "analysis"
    /\ Commit(Cur, AllOrder, "done")

Next == hoistPass \/ scopePass \/ typePass \/ analysisPass

InitFor(programs) ==
    /\ ast \in programs
    /\ pc = "hoist"
    /\ idx = 1
    /\ nscope = [n \in 1..Len(ast) |-> 0]
    /\ ndt = [n \in 1..Len(ast) |-> ""]
    /\ scopes = ConstructedScopes
    /\ log = <<>>

(***************************************************************************)
(* Programs: validated ASTs as the parser and validator hand them over.    *)
(***************************************************************************)
\* the expression node types the validator lets stand as a condition, a
\* returned value or an argument
ValueTypes == {"VariableId", "Access", "Literal", "UnaryOp", "BinaryOp", "FunctionCall"}

\* the rules the WAScriptValidator constructor registers, in its order
ValidatorRules ==
    <<[type |-> "Program", kind |-> "ChildrenType", count |-> 0, start |-> 0,
       types |-> <<{"FunctionDef", "Global", "Comment", "StructDef", "Map"}>>],
      [type |-> "Block", kind |-> "ChildrenType", count |-> 0, start |-> 0,
       types |-> <<{"VariableDef", "Assignment", "FunctionCall", "Comment", "If", "Else",
                    "ElseIf", "While", "Break", "Continue", "Return", "ReturnVoid"}>>],
      [type |-> "Access", kind |-> "ChildCount", count |-> 2, start |-> 0, types |-> <<>>],
      [type |-> "Access", kind |-> "ChildTypes", count |-> 0, start |-> 0,
       types |-> <<{"VariableId", "Type"}, {"FunctionId", "VariableId", "Access"}>>],
      [type |-> "If", kind |-> "ChildCount", count |-> 2, start |-> 0, types |-> <<>>],
      [type |-> "If", kind |-> "ChildTypes", count |-> 0, start |-> 0,
       types |-> <<ValueTypes, {"Block"}>>],
      [type |-> "Else", kind |-> "ChildCount", count |-> 1, start |-> 0, types |-> <<>>],
      [type |-> "Else", kind |-> "PreviousSiblingType", count |-> 0, start |-> 0,
       types |-> <<{"If", "ElseIf"}>>],
      [type |-> "Else", kind |-> "ChildTypes", count |-> 0, start |-> 0,
       types |-> <<{"Block"}>>],
      [type |-> "ElseIf", kind |-> "ChildCount", count |-> 2, start |-> 0, types |-> <<>>],
      [type |-> "ElseIf", kind |-> "PreviousSiblingType", count |-> 0, start |-> 0,
       types |-> <<{"If", "ElseIf"}>>],
      [type |-> "ElseIf", kind |-> "ChildTypes", count |-> 0, start |-> 0,
       types |-> <<ValueTypes, {"Block"}>>],
      [type |-> "While", kind |-> "ChildCount", count |-> 2, start |-> 0, types |-> <<>>],
      [type |-> "While", kind |-> "ChildTypes", count |-> 0, start |-> 0,
       types |-> <<ValueTypes, {"Block"}>>],
      [type |-> "Break", kind |-> "ChildCount", count |-> 0, start |-> 0, types |-> <<>>],
      [type |-> "Break", kind |-> "AncestorType", count |-> 0, start |-> 0,
       types |-> <<{"While"}>>],
      [type |-> "Continue", kind |-> "ChildCount", count |-> 0, start |-> 0, types |-> <<>>],
      [type |-> "Continue", kind |-> "AncestorType", count |-> 0, start |-> 0,
       types |-> <<{"While"}>>],
      [type |-> "Return", kind |-> "ChildCount", count |-> 1, start |-> 0, types |-> <<>>],
      [type |-> "Return", kind |-> "ChildTypes", count |-> 0, start |-> 0,
       types |-> <<ValueTypes>>],
      [type |-> "Return", kind |-> "AncestorType", count |-> 0, start |-> 0,
       types |-> <<{"FunctionDef"}>>],
      [type |-> "ReturnVoid", kind |-> "ChildCount", count |-> 0, start |-> 0, types |-> <<>>],
      [type |-> "ReturnVoid", kind |-> "AncestorType", count |-> 0, start |-> 0,
       types |-> <<{"FunctionDef"}>>],
      [type |-> "Assignment", kind |-> "ChildCount", count |-> 2, start |-> 0, types |-> <<>>],
      [type |-> "Assignment", kind |-> "ChildTypes", count |-> 0, start |-> 0,
       types |-> <<{"VariableDef", "VariableId", "Access"}>>],
      [type |-> "Global", kind |-> "ChildTypes", count |-> 0, start |-> 0,
       types |-> <<{"VariableDef"}, {"Literal"}>>],
      [type |-> "Global", kind |-> "ChildrenType", count |-> 0, start |-> 2,
       types |-> <<{"Const", "Export"}>>],
      [type |-> "FunctionCall", kind |-> "ChildCount", count |-> 2, start |-> 0,
       types |-> <<>>],
      [type |-> "FunctionCall", kind |-> "ChildTypes", count |-> 0, start |-> 0,
       types |-> <<{"FunctionId", "Access"}, {"Arguments"}>>],
      [type |-> "Arguments", kind |-> "ChildrenType", count |-> 0, start |-> 0,
       types |-> <<ValueTypes>>],
      [type |-> "Fields", kind |-> "ChildrenType", count |-> 0, start |-> 0,
       types |-> <<{"VariableDef", "Comment"}>>],
      [type |-> "StructDef", kind |-> "ChildTypes", count |-> 0, start |-> 0,
       types |-> <<{"StructId"}, {"Fields"}>>],
      [type |-> "StructDef", kind |-> "ChildrenType", count |-> 0, start |-> 2,
       types |-> <<{"Export"}>>],
      [type |-> "FunctionDef", kind |-> "ChildTypes", count |-> 0, start |-> 0,
       types |-> <<{"FunctionId"}, {"Parameters"}, {"Block"}>>],
      [type |-> "FunctionDef", kind |-> "ChildrenType", count |-> 0, start |-> 3,
       types |-> <<{"Export"}>>],
      [type |-> "Parameters", kind |-> "ChildrenType", count |-> 0, start |-> 0,
       types |-> <<{"VariableDef"}>>],
      [type |-> "VariableDef", kind |-> "ChildCount", count |-> 1, start |-> 0,
       types |-> <<>>],
      [type |-> "VariableDef", kind |-> "ChildTypes", count |-> 0, start |-> 0,
       types |-> <<{"VariableId"}>>],
      [type |-> "VariableDef", kind |-> "AncestorType", count |-> 0, start |-> 0,
       types |-> <<{"Assignment", "Global", "Map", "Parameters", "Fields"}>>],
      [type |-> "UnaryOp", kind |-> "ChildCount", count |-> 1, start |-> 0, types |-> <<>>],
      [type |-> "UnaryOp", kind |-> "ChildrenType", count |-> 0, start |-> 0,
       types |-> <<ValueTypes \cup {"Type"}>>],
      [type |-> "BinaryOp", kind |-> "ChildCount", count |-> 2, start |-> 0, types |-> <<>>],
      [type |-> "BinaryOp", kind |-> "ChildrenType", count |-> 0, start |-> 0,
       types |-> <<ValueTypes \cup {"Type"}>>],
      [type |-> "StructId", kind |-> "ChildCount", count |-> 0, start |-> 0, types |-> <<>>],
      [type |-> "VariableId", kind |-> "ChildCount", count |-> 0, start |-> 0, types |-> <<>>],
      [type |-> "FunctionId", kind |-> "ChildCount", count |-> 0, start |-> 0, types |-> <<>>],
      [type |-> "Map", kind |-> "ChildTypes", count |-> 0, start |-> 0,
       types |-> <<{"VariableDef"}, {"Literal"}>>],
      [type |-> "Export", kind |-> "ChildCount", count |-> 0, start |-> 0, types |-> <<>>],
      [type |-> "Const", kind |-> "ChildCount", count |-> 0, start |-> 0, types |-> <<>>],
      [type |-> "Type", kind |-> "ChildCount", count |-> 0, start |-> 0, types |-> <<>>],
      [type |-> "Literal", kind |-> "ChildCount", count |-> 0, start |-> 0, types |-> <<>>]>>

\* node n of the tree a has an ancestor of one of the types
RECURSIVE HasAncestorOf(_, _, _)
HasAncestorOf(a, n, types) ==
    /\ a[n].parent # 0
    /\ \/ a[a[n].parent].type \in types
       \/ HasAncestorOf(a, a[n].parent, types)

\* position of n among its parent's children (parent.children.indexOf(n))
IndexInParent(a, n) ==
    CHOOSE i \in 1..Len(a[a[n].parent].children) : a[a[n].parent].children[i] = n

\* the rule leaves n.valid as it is (TRUE) or sets it to false (FALSE)
RuleKeepsValid(a, n, rule) ==
    LET kids == a[n].children
    IN CASE rule.kind = "ChildCount" -> Len(kids) = rule.count
         [] rule.kind = "ChildTypes" ->
               \A i \in 1..Len(rule.types) :
                  /\ Len(kids) >= rule.start + i
                  /\ a[kids[rule.start + i]].type \in rule.types[i]
         [] rule.kind = "ChildrenType" ->
               \A i \in (rule.start + 1)..Len(kids) : a[kids[i]].type \in rule.types[1]
         [] rule.kind = "AncestorType" -> HasAncestorOf(a, n, rule.types[1])
         [] rule.kind = "PreviousSiblingType" ->
               /\ a[n].parent # 0
               /\ IndexInParent(a, n) > 1
               /\ a[a[a[n].parent].children[IndexInParent(a, n) - 1]].type \in rule.types[1]

\* validateNode: node.valid = true, then every rule of the node's type
validateNode(a, n) ==
    \A k \in 1..Len(ValidatorRules) :
        ValidatorRules[k].type = a[n].type => RuleKeepsValid(a, n, ValidatorRules[k])

\* validate(ast): every node's valid flag as the validator leaves it
validate(a) == [n \in 1..Len(a) |-> [a[n] EXCEPT !.valid = validateNode(a, n)]]

VarId(name) == Leaf("VariableId", name, "Name")
FuncId(name) == Leaf("FunctionId", name, "Name")
SId(name) == Leaf("StructId", name, "Name")
TypeLeaf(t) == Leaf("Type", t, "Type")
VarDef(type, name) == Node("VariableDef", type, "Type", <<VarId(name)>>)
Params(ps) == Node("Parameters", "(", "LParen", ps)
Args(as) == Node("Arguments", "(", "LParen", as)
Block(body) == Node("Block", "", "Indent", body)
Fields(fs) == Node("Fields", "", "Indent", fs)
FuncDef(ret, name, ps, body) ==
    Node("FunctionDef", ret, "Type", <<FuncId(name), Params(ps), Block(body)>>)
StructDef(name, fs) == Node("StructDef", "struct", "Struct", <<SId(name), Fields(fs)>>)
Global(type, name, lit, mods) ==
    Node("Global", "=", "Assign", <<VarDef(type, name), lit>> \o mods)
Map(type, name, lit) == Node("Map", "map", "Map", <<VarDef(type, name), lit>>)
Assign(target, value) == Node("Assignment", "=", "Assign", <<target, value>>)
BinOp(tt, a, b) == Node("BinaryOp", tt, tt, <<a, b>>)
UnOp(tt, a) == Node("UnaryOp", tt, tt, <<a>>)
Call(callee, as) == Node("FunctionCall", "(", "LParen", <<callee, Args(as)>>)
Access(a, b) == Node("Access", ".", "Period", <<a, b>>)
Return(e) == Node("Return", "return", "Return", <<e>>)
ReturnVoid == Leaf("ReturnVoid", "return", "Return")
If(cond, body) == Node("If", "if", "If", <<cond, Block(body)>>)
Const == Leaf("Const", "const", "Const")
Export == Leaf("Export", "export", "Export")
Program(decls) == validate(AstOf(Node("Program", "", "BOF", decls)))

IntLit(tok, chars) == Lit("Int", tok, chars)

\* S1: int f(int a, int b) return a + b
ProgS1 ==
    Program(<<FuncDef("int", "f", <<VarDef("int", "a"), VarDef("int", "b")>>,
                      <<Return(BinOp("Add", VarId("a"), VarId("b")))>>)>>)

(***************************************************************************)
(* Operator programs:  int f(ta a, tb b)  return a <op> b   and            *)
(*                     int f(ta a)        return <op> a                    *)
(* An operand is a parameter of one of OperandTypes, an undeclared         *)
(* variable (type invalid), a type literal (type `type`) or the call nop() *)
(* (type void).                                                            *)
(***************************************************************************)
SizedTypes == {DT_Int, DT_UInt, DT_Long, DT_ULong, DT_Float, DT_Double, DT_Bool}

OperandTypes == SizedTypes \cup {"S"}

OperandKinds == OperandTypes \cup {"#undeclared", "#type", "#nop"}

\* the expression for an operand kind, reading parameter `name`
Operand(kind, name) ==
    IF kind = "#undeclared" THEN VarId("zz")
    ELSE IF kind = "#type" THEN TypeLeaf(DT_Int)
    ELSE IF kind = "#nop" THEN Call(FuncId("nop"), <<>>)
    ELSE VarId(name)

\* the parameter list declaring the parameters the operands read
OperandParams(kinds, names) ==
    LET idxs == SelectSeq([i \in 1..Len(kinds) |-> i],
                          LAMBDA i : kinds[i] \in OperandTypes)
    IN [j \in 1..Len(idxs) |-> VarDef(kinds[idxs[j]], names[idxs[j]])]

UnaryTokens == {"Neg", "NOT", "Not"}

BinaryTokens == {"Add", "Sub", "Mul", "Div", "Mod", "AND", "OR", "XOR", "NOT", "ShL",
                 "ShR", "RotL", "RotR", "Eq", "Ne", "Lt", "Le", "Gt", "Ge", "And", "Or"}

ProgUnary(op, k) ==
    Program(<<FuncDef("int", "f", OperandParams(<<k>>, <<"a">>),
                      <<Return(UnOp(op, Operand(k, "a")))>>)>>)

ProgBinary(op, k0, k1) ==
    Program(<<FuncDef("int", "f", OperandParams(<<k0, k1>>, <<"a", "b">>),
                      <<Return(BinOp(op, Operand(k0, "a"), Operand(k1, "b")))>>)>>)

OperatorPrograms ==
    {ProgUnary(op, k) : op \in UnaryTokens, k \in OperandKinds}
    \cup {ProgBinary(op, k0, k1) : op \in BinaryTokens, k0 \in OperandKinds,
                                   k1 \in OperandKinds}

InitOperators == InitFor(OperatorPrograms)

SpecOperators == InitOperators /\ [][Next]_vars

(***************************************************************************)
(* Cast programs:  int f(ta a)  return a as <rhs>   /   a to <rhs>         *)
(*                 int f(ta a)  if a as <rhs> ...   /   a to <rhs>         *)
(* The right-hand side is a type literal, or a node that is no Type node.  *)
(***************************************************************************)
TypeKeywords == SizedTypes \cup {DT_None}

CastRhsKinds == TypeKeywords \cup {"#novalue"}

CastRhs(kind) == IF kind = "#novalue" THEN VarId("zz") ELSE TypeLeaf(kind)

CastContexts == {"Return", "If"}

ProgCast(ctx, op, k, rhs) ==
    LET cast == BinOp(op, Operand(k, "a"), CastRhs(rhs))
    IN Program(<<FuncDef("int", "f", OperandParams(<<k>>, <<"a">>),
                         <<IF ctx = "Return" THEN Return(cast) ELSE If(cast, <<>>)>>)>>)

CastOperandKinds == OperandTypes \cup {"#undeclared", "#nop"}

CastPrograms ==
    {ProgCast(ctx, op, k, rhs) : ctx \in CastContexts, op \in {"As", "To"},
                                 k \in CastOperandKinds, rhs \in CastRhsKinds}

InitCasts == InitFor(CastPrograms)

SpecCasts == InitCasts /\ [][Next]_vars

(***************************************************************************)
(* Literals                                                                *)
(***************************************************************************)
LiteralOf(tt) ==
    IF tt = "Int" THEN Lit("Int", "5", <<"5">>)
    ELSE IF tt = "UInt" THEN Lit("UInt", "5u", <<"5", "u">>)
    ELSE IF tt = "Long" THEN Lit("Long", "5l", <<"5", "l">>)
    ELSE IF tt = "ULong" THEN Lit("ULong", "5ul", <<"5", "u", "l">>)
    ELSE IF tt = "Float" THEN Lit("Float", "5f", <<"5", "f">>)
    ELSE IF tt = "Double" THEN Lit("Double", "3.14", <<"3", ".", "1", "4">>)
    ELSE Lit("Bool", "true", <<"t", "r", "u", "e">>)

LiteralKinds == {"Int", "UInt", "Long", "ULong", "Float", "Double", "Bool"}

(***************************************************************************)
(* Call programs:  R g(P1 p1, .., Pk pk)                                   *)
(*                 void main()  g(e1, .., em)                              *)
(***************************************************************************)
MaxParams == 2

Names == <<"p1", "p2", "p3", "p4", "p5", "p6">>

SeqsUpTo(S, k) == UNION {[1..m -> S] : m \in 0..k}

ArgKinds == {"Int", "Bool", "#undeclared"}

ArgExpr(kind) == IF kind = "#undeclared" THEN VarId("zz") ELSE LiteralOf(kind)

ProgCall(ret, ptypes, akinds) ==
    Program(<<FuncDef(ret, "g", [i \in 1..Len(ptypes) |-> VarDef(ptypes[i], Names[i])], <<>>),
              FuncDef(DT_None, "main", <<>>,
                      <<Call(FuncId("g"), [i \in 1..Len(akinds) |-> ArgExpr(akinds[i])])>>)>>)

CallPrograms ==
    {ProgCall(ret, ptypes, akinds) :
        ret \in {DT_None, DT_Int},
        ptypes \in SeqsUpTo({DT_Int, DT_Bool}, MaxParams),
        akinds \in SeqsUpTo(ArgKinds, MaxParams)}

InitCalls == InitFor(CallPrograms)

SpecCalls == InitCalls /\ [][Next]_vars

(***************************************************************************)
(* Assignment programs:  void main(T a)  <target> = <value>                *)
(* The target is the parameter, an undeclared variable or a new local.     *)
(* Global programs:      T x = <literal>                                   *)
(***************************************************************************)
TargetKinds == {"#param", "#undeclared", "#local"}

Target(kind, type) ==
    IF kind = "#param" THEN VarId("a")
    ELSE IF kind = "#undeclared" THEN VarId("zz")
    ELSE VarDef(type, "x")

ValueKinds == LiteralKinds \cup {"#undeclared", "#nop"}

Value(kind) ==
    IF kind \in LiteralKinds THEN LiteralOf(kind) ELSE Operand(kind, "a")

ProgAssign(tk, type, vk) ==
    Program(<<FuncDef(DT_None, "main", <<VarDef(type, "a")>>,
                      <<Assign(Target(tk, type), Value(vk))>>)>>)

ProgGlobal(type, lk) == Program(<<Global(type, "x", LiteralOf(lk), <<>>)>>)

AssignPrograms ==
    {ProgAssign(tk, type, vk) : tk \in TargetKinds, type \in OperandTypes, vk \in ValueKinds}
    \cup {ProgGlobal(type, lk) : type \in OperandTypes, lk \in LiteralKinds}

InitAssigns == InitFor(AssignPrograms)

SpecAssigns == InitAssigns /\ [][Next]_vars

(***************************************************************************)
(* Declaration programs: up to MaxDecls declarations of one kind in one    *)
(* scope, with ids drawn from a few names, so that ids repeat.              *)
(***************************************************************************)
MaxDecls == 3

DeclNames == {"x", "y", "toString"}

DeclKinds == {"global", "function", "struct", "param", "field", "local", "shadow"}

ProgDecls(kind, ids) ==
    LET n == Len(ids)
    IN IF kind = "global"
       THEN Program([i \in 1..n |-> Global(DT_Int, ids[i], LiteralOf("Int"), <<>>)])
       ELSE IF kind = "function"
       THEN Program([i \in 1..n |-> FuncDef(DT_None, ids[i], <<>>, <<>>)])
       ELSE IF kind = "struct"
       THEN Program([i \in 1..n |-> StructDef(ids[i], <<VarDef(DT_Int, "v")>>)])
       ELSE IF kind = "param"
       THEN Program(<<FuncDef(DT_None, "f", [i \in 1..n |-> VarDef(DT_Int, ids[i])], <<>>)>>)
       ELSE IF kind = "field"
       THEN Program(<<StructDef("S", [i \in 1..n |-> VarDef(DT_Int, ids[i])])>>)
       ELSE IF kind = "local"
       THEN Program(<<FuncDef(DT_None, "f", <<>>,
                              [i \in 1..n |-> Assign(VarDef(DT_Int, ids[i]), LiteralOf("Int"))])>>)
       \* a global, a parameter and a local of one function, in three scopes
       ELSE Program(<<Global(DT_Int, "x", LiteralOf("Int"), <<>>)>>
                    \o <<FuncDef(DT_None, "f", <<VarDef(DT_Int, "x")>>,
                                 [i \in 1..n |-> Assign(VarDef(DT_Int, ids[i]),
                                                        LiteralOf("Int"))])>>)

DeclPrograms ==
    {ProgDecls(kind, ids) : kind \in DeclKinds, ids \in SeqsUpTo(DeclNames, MaxDecls)}

InitDecls == InitFor(DeclPrograms)

SpecDecls == InitDecls /\ [][Next]_vars

(***************************************************************************)
(* Struct programs:  struct T {long u; int w}                              *)
(*                   struct S {<fields>}                                   *)
(*                   map S v <offset>      or      void main(S v)          *)
(*                   void main()  v.x = 7                                  *)
(* S has up to MaxFields fields, of type int, long, T or the undeclared U, *)
(* with ids drawn from two names, so that ids repeat; or one field of each *)
(* sized type before an int; or a field of type S itself.                  *)
(***************************************************************************)
MaxFields == 2

FieldTypes == {DT_Int, DT_Long, "T", "U"}

FieldNames == {"x", "y"}

FieldLists ==
    SeqsUpTo(FieldTypes \X FieldNames, MaxFields)
    \cup {<<<<type, "y">>, <<DT_Int, "x">>>> : type \in SizedTypes}
    \cup {<<<<DT_Int, "x">>, <<"S", "next">>, <<DT_Int, "y">>>>}

HolderKinds == {"map1024", "map16", "param"}

ProgStruct(fl, hk) ==
    LET structs == <<StructDef("T", <<VarDef(DT_Long, "u"), VarDef(DT_Int, "w")>>),
                     StructDef("S", [i \in 1..Len(fl) |-> VarDef(fl[i][1], fl[i][2])])>>
        holder == IF hk = "map1024"
                  THEN <<Map("S", "v", Lit("Int", "1024", <<"1", "0", "2", "4">>))>>
                  ELSE IF hk = "map16"
                  THEN <<Map("S", "v", Lit("Int", "16", <<"1", "6">>))>>
                  ELSE <<>>
        params == IF hk = "param" THEN <<VarDef("S", "v")>> ELSE <<>>
    IN Program(structs \o holder
               \o <<FuncDef(DT_None, "main", params,
                            <<Assign(Access(VarId("v"), VarId("x")),
                                     Lit("Int", "7", <<"7">>))>>)>>)

StructPrograms == {ProgStruct(fl, hk) : fl \in FieldLists, hk \in HolderKinds}

InitStructs == InitFor(StructPrograms)

SpecStructs == InitStructs /\ [][Next]_vars

(***************************************************************************)
(* Access programs:  struct S {int x; long y}                              *)
(*                   map S v 16       or      void main(S v)               *)
(*                   void main()  v.<f> = 1  and a second access v.<g>     *)
(* The second access sits in the same block, in a nested block, in the     *)
(* enclosing block of the first (which is then the nested one), or in      *)
(* another function.                                                       *)
(***************************************************************************)
AccessPlacements == {"same", "nested", "enclosing", "other"}

AccessHolders == {"map16", "param"}

ProgAccess(f, g, place, hk) ==
    LET one == Lit("Int", "1", <<"1">>)
        first == Assign(Access(VarId("v"), VarId(f)), one)
        second == Assign(Access(VarId("v"), VarId(g)), one)
        holder == IF hk = "map16"
                  THEN <<Map("S", "v", Lit("Int", "16", <<"1", "6">>))>>
                  ELSE <<>>
        params == IF hk = "param" THEN <<VarDef("S", "v")>> ELSE <<>>
        body == IF place = "same" THEN <<first, second>>
                ELSE IF place = "nested"
                THEN <<first, If(Access(VarId("v"), VarId("x")), <<second>>)>>
                ELSE IF place = "enclosing"
                THEN <<If(one, <<first>>), second, If(one, <<second>>)>>
                ELSE <<first>>
        others == IF place = "other"
                  THEN <<FuncDef(DT_None, "g", params, <<second>>)>>
                  ELSE <<>>
    IN Program(<<StructDef("S", <<VarDef(DT_Int, "x"), VarDef(DT_Long, "y")>>)>>
               \o holder \o <<FuncDef(DT_None, "main", params, body)>> \o others)

\* The same struct, holder and function with the three program-level
\* declarations in every order:  struct S {int x; long y} ; map S v 16 ;
\* void main() v.f = 1     (with a parameter as holder there is no map)
DeclOrders ==
    {<<"struct", "holder", "func">>, <<"struct", "func", "holder">>,
     <<"holder", "struct", "func">>, <<"holder", "func", "struct">>,
     <<"func", "struct", "holder">>, <<"func", "holder", "struct">>}

ProgOrdered(order, hk, f) ==
    LET one == Lit("Int", "1", <<"1">>)
        params == IF hk = "param" THEN <<VarDef("S", "v")>> ELSE <<>>
        piece(k) ==
            IF k = "struct"
            THEN <<StructDef("S", <<VarDef(DT_Int, "x"), VarDef(DT_Long, "y")>>)>>
            ELSE IF k = "holder"
            THEN IF hk = "map16"
                 THEN <<Map("S", "v", Lit("Int", "16", <<"1", "6">>))>>
                 ELSE <<>>
            ELSE <<FuncDef(DT_None, "main", params,
                           <<Assign(Access(VarId("v"), VarId(f)), one)>>)>>
    IN Program(piece(order[1]) \o piece(order[2]) \o piece(order[3]))

AccessPrograms ==
    {ProgAccess(f, g, place, hk) :
        f \in FieldNames, g \in FieldNames, place \in AccessPlacements,
        hk \in AccessHolders}
    \cup {ProgOrdered(order, hk, f) :
            order \in DeclOrders, hk \in AccessHolders, f \in FieldNames}

InitAccesses == InitFor(AccessPrograms)

SpecAccesses == InitAccesses /\ [][Next]_vars

(***************************************************************************)
(* Struct graphs:    struct T {<one field>}                                *)
(*                   struct S {<fields>}                                   *)
(*                   map S v 16                                            *)
(*                   void main()  v.x = 7                                  *)
(* T's field is an int, an S or a T; S has up to MaxFields fields of type  *)
(* long, S, T or the undeclared U, named x, y, z by position.  The graphs  *)
(* include S and T containing themselves and each other.                   *)
(***************************************************************************)
GraphFieldTypes == {DT_Long, "S", "T", "U"}

PositionNames == <<"x", "y", "z", "w">>

ProgGraph(tt, sl) ==
    Program(<<StructDef("T", <<VarDef(tt, "x")>>),
              StructDef("S", [i \in 1..Len(sl) |-> VarDef(sl[i], PositionNames[i])]),
              Map("S", "v", Lit("Int", "16", <<"1", "6">>)),
              FuncDef(DT_None, "main", <<>>,
                      <<Assign(Access(VarId("v"), VarId("x")), Lit("Int", "7", <<"7">>))>>)>>)

GraphPrograms ==
    {ProgGraph(tt, sl) : tt \in {DT_Int, "S", "T"},
                         sl \in SeqsUpTo(GraphFieldTypes, MaxFields) \ {<<>>}}

InitGraphs == InitFor(GraphPrograms)

SpecGraphs == InitGraphs /\ [][Next]_vars

(***************************************************************************)
(* Malformed programs: trees in which the validator flags a node.          *)
(*     struct S { int x }                                                  *)
(*     int f(int a)  <statement>  return a                                 *)
(* with one malformed expression placed in a statement, one malformed      *)
(* statement, or one malformed declaration added to the program.           *)
(***************************************************************************)
MalformedExprs == {"access0", "access1", "binop1", "unop0", "call1"}

MalformedExpr(kind) ==
    IF kind = "access0" THEN Node("Access", ".", "Period", <<>>)
    ELSE IF kind = "access1" THEN Node("Access", ".", "Period", <<VarId("a")>>)
    ELSE IF kind = "binop1" THEN Node("BinaryOp", "Add", "Add", <<VarId("a")>>)
    ELSE IF kind = "unop0" THEN Node("UnaryOp", "Neg", "Neg", <<>>)
    ELSE Node("FunctionCall", "(", "LParen", <<FuncId("f")>>)

\* the places of an expression: each is typed first by another parent rule
ExprContexts == {"return", "operand", "unary", "argument", "value", "target"}

InContext(ctx, e) ==
    IF ctx = "return" THEN Return(e)
    ELSE IF ctx = "operand" THEN Assign(VarId("a"), BinOp("Add", e, VarId("a")))
    ELSE IF ctx = "unary" THEN Assign(VarId("a"), UnOp("Neg", e))
    ELSE IF ctx = "argument" THEN Assign(VarId("a"), Call(FuncId("f"), <<e>>))
    ELSE IF ctx = "value" THEN Assign(VarId("a"), e)
    ELSE Assign(e, IntLit("1", <<"1">>))

MalformedStmts == {"return0", "returnType", "assign1", "vardef", "break"}

MalformedStmt(kind) ==
    IF kind = "return0" THEN Node("Return", "return", "Return", <<>>)
    ELSE IF kind = "returnType" THEN Return(TypeLeaf(DT_Int))
    ELSE IF kind = "assign1" THEN Node("Assignment", "=", "Assign", <<VarId("a")>>)
    ELSE IF kind = "vardef" THEN VarDef(DT_Int, "b")
    ELSE Leaf("Break", "break", "Break")

MalformedDecls == {"struct0", "struct1", "func0", "func1", "func2", "global1", "map1"}

MalformedDecl(kind) ==
    IF kind = "struct0" THEN Node("StructDef", "struct", "Struct", <<>>)
    ELSE IF kind = "struct1" THEN Node("StructDef", "struct", "Struct", <<SId("T")>>)
    ELSE IF kind = "func0" THEN Node("FunctionDef", DT_Int, "Type", <<>>)
    ELSE IF kind = "func1" THEN Node("FunctionDef", DT_Int, "Type", <<FuncId("g")>>)
    ELSE IF kind = "func2"
    THEN Node("FunctionDef", DT_Int, "Type", <<FuncId("g"), Params(<<>>)>>)
    ELSE IF kind = "global1" THEN Node("Global", "=", "Assign", <<VarDef(DT_Int, "g")>>)
    ELSE Node("Map", "map", "Map", <<VarDef(DT_Int, "g")>>)

ProgMalformed(stmts, decls) ==
    Program(<<StructDef("S", <<VarDef(DT_Int, "x")>>),
              FuncDef(DT_Int, "f", <<VarDef(DT_Int, "a")>>,
                      stmts \o <<Return(VarId("a"))>>)>> \o decls)

MalformedPrograms ==
    {ProgMalformed(<<InContext(ctx, MalformedExpr(k))>>, <<>>) :
        ctx \in ExprContexts, k \in MalformedExprs}
    \cup {ProgMalformed(<<MalformedStmt(k)>>, <<>>) : k \in MalformedStmts}
    \cup {ProgMalformed(<<>>, <<MalformedDecl(k)>>) : k \in MalformedDecls}

InitMalformed == InitFor(MalformedPrograms)

SpecMalformed == InitMalformed /\ [][Next]_vars

(***************************************************************************)
(* Propagation programs: an expression that is typed invalid, placed as an *)
(* operand, a cast value, a side of an assignment or global, a returned    *)
(* value or an argument.                                                   *)
(*     void g(int p)        void h(invalid p)                              *)
(*     int f(int a)  <statement>  return a                                 *)
(* h declares its parameter with the type name invalid (a type that is     *)
(* not a keyword is a Name token, like a struct's name).                   *)
(***************************************************************************)
InvalidSources == {"undeclared", "mismatch", "unknownCall", "flagged"}

InvalidSource(kind) ==
    IF kind = "undeclared" THEN VarId("zz")
    ELSE IF kind = "mismatch" THEN BinOp("Add", VarId("a"), LiteralOf("Bool"))
    ELSE IF kind = "unknownCall" THEN Call(FuncId("nofn"), <<>>)
    ELSE Node("BinaryOp", "Add", "Add", <<VarId("a")>>)

EnclosingKinds ==
    {"unary", "left", "right", "as", "to", "value", "target", "global", "return",
     "argument", "poisoned"}

Enclosed(ctx, e) ==
    IF ctx = "unary" THEN Assign(VarId("a"), UnOp("Neg", e))
    ELSE IF ctx = "left" THEN Assign(VarId("a"), BinOp("Add", e, VarId("a")))
    ELSE IF ctx = "right" THEN Assign(VarId("a"), BinOp("Add", VarId("a"), e))
    ELSE IF ctx = "as" THEN Assign(VarId("a"), BinOp("As", e, TypeLeaf(DT_Float)))
    ELSE IF ctx = "to" THEN Assign(VarId("a"), BinOp("To", e, TypeLeaf(DT_Long)))
    ELSE IF ctx = "value" THEN Assign(VarId("a"), e)
    ELSE IF ctx = "target" THEN Assign(e, LiteralOf("Int"))
    ELSE IF ctx = "return" THEN Return(e)
    ELSE IF ctx = "argument" THEN Call(FuncId("g"), <<e>>)
    ELSE Call(FuncId("h"), <<e>>)

ProgPropagation(ctx, kind) ==
    Program(<<FuncDef(DT_None, "g", <<VarDef(DT_Int, "p")>>, <<>>),
              FuncDef(DT_None, "h", <<VarDef(DT_Invalid, "p")>>, <<>>),
              FuncDef(DT_Int, "f", <<VarDef(DT_Int, "a")>>,
                      (IF ctx = "global" THEN <<>>
                       ELSE <<Enclosed(ctx, InvalidSource(kind))>>)
                      \o <<Return(VarId("a"))>>)>>
            \o (IF ctx = "global"
                THEN <<Node("Global", "=", "Assign",
                            <<VarDef(DT_Int, "k"), InvalidSource(kind)>>)>>
                ELSE <<>>))

PropagationPrograms ==
    {ProgPropagation(ctx, kind) : ctx \in EnclosingKinds, kind \in InvalidSources}

InitPropagation == InitFor(PropagationPrograms)

SpecPropagation == InitPropagation /\ [][Next]_vars

(***************************************************************************)
(* Scenario programs                                                       *)
(***************************************************************************)
\* S2: int x = 5 ; x = 3.14   (the assignment sits in a function body)
ProgS2 ==
    Program(<<Global(DT_Int, "x", LiteralOf("Int"), <<>>),
              FuncDef(DT_None, "main", <<>>, <<Assign(VarId("x"), LiteralOf("Double"))>>)>>)

\* S3: int add(int a, int b) return a + b ; int bad() return add(1)
ProgS3 ==
    Program(<<FuncDef(DT_Int, "add", <<VarDef(DT_Int, "a"), VarDef(DT_Int, "b")>>,
                      <<Return(BinOp("Add", VarId("a"), VarId("b")))>>),
              FuncDef(DT_Int, "bad", <<>>,
                      <<Return(Call(FuncId("add"), <<LiteralOf("Int")>>))>>)>>)

\* S4: const int C = 10 ; void main() C = 20   (and the same without const)
ProgS4(mods) ==
    Program(<<Global(DT_Int, "C", Lit("Int", "10", <<"1", "0">>), mods),
              FuncDef(DT_None, "main", <<>>,
                      <<Assign(VarId("C"), Lit("Int", "20", <<"2", "0">>))>>)>>)

\* S5: struct Point {int x; int y} ; map Point p 1024 ; void main() p.x = 7
ProgS5 ==
    Program(<<StructDef("Point", <<VarDef(DT_Int, "x"), VarDef(DT_Int, "y")>>),
              Map("Point", "p", Lit("Int", "1024", <<"1", "0", "2", "4">>)),
              FuncDef(DT_None, "main", <<>>,
                      <<Assign(Access(VarId("p"), VarId("x")),
                               Lit("Int", "7", <<"7">>))>>)>>)

\* a bare return in a function of the given return type
ProgReturnVoid(ret) == Program(<<FuncDef(ret, "f", <<>>, <<ReturnVoid>>)>>)

\* a value return in a function of the given return type
ProgReturn(ret, lk) == Program(<<FuncDef(ret, "f", <<>>, <<Return(LiteralOf(lk))>>)>>)

\* the void value of a call returned from a function of the given return type
ProgReturnCall(ret) ==
    Program(<<FuncDef(ret, "f", <<>>, <<Return(Call(FuncId("nop"), <<>>))>>)>>)

\* a local, a parameter or a function annotated with a type no struct declares
ProgUndeclaredType(kind) ==
    IF kind = "local"
    THEN Program(<<FuncDef(DT_None, "f", <<>>,
                           <<Assign(VarDef("Foo", "x"), LiteralOf("Int"))>>)>>)
    ELSE IF kind = "param"
    THEN Program(<<FuncDef(DT_None, "f", <<VarDef("Foo", "a")>>, <<>>)>>)
    ELSE Program(<<FuncDef("Foo", "f", <<>>, <<>>)>>)

\* a member access whose base is named like a method of Object.prototype
ProgInheritedAccess ==
    Program(<<FuncDef(DT_None, "main", <<>>,
                      <<Assign(Access(VarId("toString"), VarId("x")),
                               Lit("Int", "7", <<"7">>))>>)>>)

\* T f(uint a) return T.load(a)
ProgBuiltinLoad(t) ==
    Program(<<FuncDef(t, "f", <<VarDef(DT_UInt, "a")>>,
                      <<Return(Call(Access(TypeLeaf(t), FuncId("load")),
                                    <<VarId("a")>>))>>)>>)

\* void g(uint a, T v) T.store(a, v)
ProgBuiltinStore(t) ==
    Program(<<FuncDef(DT_None, "g", <<VarDef(DT_UInt, "a"), VarDef(t, "v")>>,
                      <<Call(Access(TypeLeaf(t), FuncId("store")),
                             <<VarId("a"), VarId("v")>>)>>)>>)

\* void nop(int a) ; void main() nop()
ProgUserNop ==
    Program(<<FuncDef(DT_None, "nop", <<VarDef(DT_Int, "a")>>, <<>>),
              FuncDef(DT_None, "main", <<>>, <<Call(FuncId("nop"), <<>>)>>)>>)

\* void main()  if (true) nop()  if (true) nop()
ProgTwoBlocks ==
    Program(<<FuncDef(DT_None, "main", <<>>,
                      <<If(LiteralOf("Bool"), <<Call(FuncId("nop"), <<>>)>>),
                        If(LiteralOf("Bool"), <<Call(FuncId("nop"), <<>>)>>)>>)>>)

ScenarioPrograms ==
    {ProgS1, ProgS2, ProgS3, ProgS5, ProgInheritedAccess}
    \cup {ProgS4(mods) : mods \in {<<>>, <<Const>>, <<Export>>, <<Const, Export>>}}
    \cup {ProgReturnVoid(ret) : ret \in {DT_None, DT_Int, DT_Bool}}
    \cup {ProgReturn(ret, lk) : ret \in {DT_None, DT_Int, DT_Bool}, lk \in {"Int", "Bool"}}
    \cup {ProgReturnCall(ret) : ret \in {DT_None, DT_Int}}
    \cup {ProgUndeclaredType(kind) : kind \in {"local", "param", "function"}}
    \* a global x, a parameter x that hides it, and one local beside them
    \cup {ProgDecls("shadow", <<id>>) : id \in {"x", "y"}}
    \cup {ProgBuiltinLoad(t) : t \in SizedTypes \ {DT_Bool}}
    \cup {ProgBuiltinStore(t) : t \in SizedTypes \ {DT_Bool}}
    \cup {ProgUserNop, ProgTwoBlocks}

Init == InitFor(ScenarioPrograms)

Spec == Init /\ [][Next]_vars

\* every family but the operator tables
AllPrograms ==
    ScenarioPrograms \cup CastPrograms \cup CallPrograms \cup AssignPrograms
    \cup DeclPrograms \cup StructPrograms

InitAll == InitFor(AllPrograms)

SpecAll == InitAll /\ [][Next]_vars

(***************************************************************************)
(* Properties                                                              *)
(***************************************************************************)
Logged(msg, node) == \E i \in 1..Len(log) : log[i] = [msg |-> msg, node |-> node]

CountLogged(msg, node) ==
    Cardinality({i \in 1..Len(log) : log[i] = [msg |-> msg, node |-> node]})

Finished == pc = "done"

NumericTypes == {DT_Int, DT_UInt, DT_Long, DT_ULong, DT_Float, DT_Double}

\* the operand types an operator accepts, as the operator table is stated
OperatorDomain(arity, tt) ==
    IF arity = 1 THEN
        (IF tt = "Neg" THEN {DT_Int, DT_Long, DT_Float, DT_Double}
         ELSE IF tt = "NOT" THEN {DT_Int, DT_UInt, DT_Long, DT_ULong}
         ELSE IF tt = "Not" THEN {DT_Bool}
         ELSE {})
    ELSE
        (IF tt \in {"Add", "Sub", "Mul", "Div"} THEN NumericTypes
         ELSE IF tt \in {"Mod", "AND", "OR", "XOR", "NOT", "ShL", "ShR", "RotL", "RotR"}
              THEN {DT_Int, DT_UInt, DT_Long, DT_ULong}
         ELSE IF tt \in {"Eq", "Ne"} THEN NumericTypes \cup {DT_Bool}
         ELSE IF tt \in {"Lt", "Le", "Gt", "Ge"} THEN NumericTypes
         ELSE IF tt \in {"And", "Or"} THEN {DT_Bool}
         ELSE {})

OperatorResult(arity, tt, t) ==
    IF arity = 2 /\ tt \in {"Eq", "Ne", "Lt", "Le", "Gt", "Ge"} THEN DT_Bool ELSE t

TableOperators == UnaryTokens \cup BinaryTokens

\* C8: every typed UnaryOp / BinaryOp node of a table operator has the type its
\* operator's table gives for the operand types, and, when no row matches (so
\* in particular when the two operand types differ), type invalid with a
\* diagnostic on each operand; a matching row logs no operand diagnostic.
C8_OperatorTables ==
    \A n \in Nodes :
        /\ (ast[n].type = "UnaryOp" /\ ast[n].tt \in UnaryTokens /\ ndt[n] # "") =>
              LET c == child(n, 0)
                  ok == ndt[c] \in OperatorDomain(1, ast[n].tt)
              IN /\ ok => ndt[n] = OperatorResult(1, ast[n].tt, ndt[c])
                 /\ ~ok => ndt[n] = DT_Invalid
                 /\ CountLogged("Invalid argument to operator", c) = IF ok THEN 0 ELSE 1
        /\ (ast[n].type = "BinaryOp" /\ ast[n].tt \in BinaryTokens /\ ndt[n] # "") =>
              LET c0 == child(n, 0)
                  c1 == child(n, 1)
                  ok == ndt[c0] = ndt[c1] /\ ndt[c0] \in OperatorDomain(2, ast[n].tt)
              IN /\ ok => ndt[n] = OperatorResult(2, ast[n].tt, ndt[c0])
                 /\ ~ok => ndt[n] = DT_Invalid
                 /\ CountLogged("Invalid 1st argument to operator", c0) = IF ok THEN 0 ELSE 1
                 /\ CountLogged("Invalid 2nd argument to operator", c1) = IF ok THEN 0 ELSE 1

\* a comparison of two operands of unlike valid types was typed invalid and
\* both operands were reported
C8_Witness ==
    /\ Finished
    /\ \E n \in Nodes :
          /\ ast[n].type = "BinaryOp" /\ ast[n].tt = "Le"
          /\ ndt[child(n, 0)] = DT_Int /\ ndt[child(n, 1)] = DT_Long
          /\ ndt[n] = DT_Invalid
          /\ Logged("Invalid 1st argument to operator", child(n, 0))
          /\ Logged("Invalid 2nd argument to operator", child(n, 1))

(***************************************************************************)
(* Annotation of all nodes (C1, C2)                                        *)
(***************************************************************************)
\* C1: once analyze has returned, every node has a scope (not null) and a
\* non-empty dataType.
C1_AllAnnotated ==
    Finished => \A n \in Nodes : nscope[n] # 0 /\ ndt[n] # ""

\* analyze returned on a program with diagnostics, and a node that has no
\* type rule (a parameter list) carries the default type void
C1_Witness ==
    /\ Finished
    /\ Len(log) > 0
    /\ \E n \in Nodes : ast[n].type = "Parameters" /\ ndt[n] = DT_None /\ nscope[n] # 0

PrimitiveNames ==
    {DT_None, DT_Invalid, DT_Type, DT_Int, DT_UInt, DT_Long, DT_ULong, DT_Float,
     DT_Double, DT_Bool}

\* the ids of the structs declared in some scope
DeclaredStructs == UNION {DOMAIN scopes[s].structs : s \in 1..Len(scopes)}

\* C2: after analyze, every node's dataType is a primitive name or the id of
\* a struct declared in some scope.
C2_KnownTypes ==
    Finished => \A n \in Nodes : ndt[n] \in PrimitiveNames \cup DeclaredStructs

(***************************************************************************)
(* Constant globals (C3) and bare returns (C4)                             *)
(***************************************************************************)
\* the Variable record the VariableDef node def declared, as a set (empty
\* when the declaration was rejected)
DeclaredBy(def) ==
    {v \in UNION {{scopes[s].vars[i] : i \in 1..Len(scopes[s].vars)} : s \in 1..Len(scopes)} :
        v.node = def}

\* the Assignment a's target identifier resolves to the variable declared by def
TargetResolvesTo(a, def) ==
    LET ident == getIdentifier(child(a, 0))
    IN /\ ident > 0
       /\ nscope[ident] > 0
       /\ LET h == Scope_getVariable(scopes, nscope[ident], ast[ident].tok)
          IN h > 0 /\ VarAt(scopes, h, ast[ident].tok).node = def

HasConstModifier(g) ==
    /\ ast[g].type = "Global"
    /\ \E k \in 1..Len(ast[g].children) : ast[ast[g].children[k]].type = "Const"

\* C3: for a Global with a Const modifier, the variable it declares has its
\* const flag set once the scope pass is over, and every typed Assignment
\* whose target resolves to it is invalid with the diagnostic "Constant
\* globals cannot be assigned to" on the assignment.
C3_ConstGlobals ==
    \A g \in Nodes : HasConstModifier(g) =>
        LET def == child(g, 0)
        IN /\ pc \in {"type", "analysis", "done"} =>
                \A v \in DeclaredBy(def) : v.const
           /\ \A a \in Nodes :
                (ast[a].type = "Assignment" /\ ndt[a] # "" /\ TargetResolvesTo(a, def)) =>
                    /\ ndt[a] = DT_Invalid
                    /\ Logged("Constant globals cannot be assigned to", a)

ReturnDiagnostics ==
    Cardinality({i \in 1..Len(log) :
        log[i].msg = "Type of return value does not match function's return type"})

\* C4: a program with a bare return never throws; when analyze has returned,
\* the ReturnVoid node of a function that is not void is invalid with one
\* diagnostic, and that of a void function is void with none.
C4_BareReturn ==
    \A n \in Nodes : ast[n].type = "ReturnVoid" =>
        LET p == Ancestor(n, "FunctionDef")
        IN /\ pc # "thrown"
           /\ Finished =>
                IF p # 0 /\ ast[p].tok # DT_None
                THEN ndt[n] = DT_Invalid /\ ReturnDiagnostics = 1
                ELSE ndt[n] = DT_None /\ ReturnDiagnostics = 0

(***************************************************************************)
(* Redeclarations (C5)                                                     *)
(***************************************************************************)
DeclarationTypes == {"VariableDef", "FunctionDef", "StructDef"}

\* the declaring rule of node n has run
Declared(n) == ast[n].type \in DeclarationTypes /\ nscope[n] > 0

DeclaredId(n) == ast[child(n, 0)].tok

\* the scope whose map the declaration goes to: the rule's parent scope
DeclaringScope(n) ==
    IF ast[n].type = "VariableDef" THEN nscope[n] ELSE scopes[nscope[n]].parent

\* the declarations of the same kind, id and scope that ran before n
EarlierDeclarations(n) ==
    {m \in Nodes : /\ m < n
                   /\ ast[m].type = ast[n].type
                   /\ Declared(m)
                   /\ DeclaredId(m) = DeclaredId(n)
                   /\ DeclaringScope(m) = DeclaringScope(n)}

RedeclarationMessage(n) ==
    IF ast[n].type = "VariableDef" THEN "A variable with the name already exists"
    ELSE IF ast[n].type = "FunctionDef" THEN "A function with the name already exists"
    ELSE "A struct with the name already exists"

\* the declaring scope's entry for n's id, of n's kind, was made by node m
EntryMadeBy(n, m) ==
    LET d == scopes[DeclaringScope(n)]
        id == DeclaredId(n)
    IN IF ast[n].type = "VariableDef"
       THEN VarPos(d.vars, id) # 0 /\ d.vars[VarPos(d.vars, id)].node = m
       ELSE IF ast[n].type = "FunctionDef"
       THEN id \in DOMAIN d.funcs /\ d.funcs[id].node = m
       ELSE id \in DOMAIN d.structs /\ d.structs[id].node = m

Min(S) == CHOOSE x \in S : \A y \in S : x <= y

\* the statement of C5 for the declaration node n
RedeclarationRule(n) ==
    LET earlier == EarlierDeclarations(n)
    IN /\ CountLogged(RedeclarationMessage(n), n) = IF earlier = {} THEN 0 ELSE 1
       /\ EntryMadeBy(n, Min(earlier \cup {n}))

\* C5: a declaration whose id an earlier declaration of its kind put into the
\* declaring scope logs exactly one redeclaration diagnostic and leaves the
\* first declaration's entry in place; any other declaration logs none and
\* makes the entry, also a StructDef visited by the hoist and the scope pass.
C5_Redeclarations ==
    \A n \in Nodes : Declared(n) => RedeclarationRule(n)

(***************************************************************************)
(* Calls (C6) and assignments (C7)                                         *)
(***************************************************************************)
\* C6: a typed call whose callee resolves to a function F has F's return
\* type iff the counts agree and every argument has its parameter's type,
\* and is invalid otherwise; unequal counts log one diagnostic on the call
\* and none on the arguments, equal counts log one per mismatching argument.
C6_CallTyping ==
    \A n \in Nodes : (ast[n].type = "FunctionCall" /\ ndt[n] # "") =>
        LET ident == getIdentifier(child(n, 0))
            h == IF ident > 0 /\ nscope[ident] > 0
                 THEN Scope_getFunction(scopes, nscope[ident], ast[ident].tok)
                 ELSE 0
        IN h > 0 =>
            LET F == scopes[h].funcs[ast[ident].tok]
                args == ast[child(n, 1)].children
                sameCount == Len(F.params) = Len(args)
                mismatch == {i \in 1..Len(args) :
                                i <= Len(F.params) /\ ndt[args[i]] # F.params[i].type}
                match == sameCount /\ mismatch = {}
            IN /\ (ndt[n] = F.type) <=> match
               /\ ~match => ndt[n] = DT_Invalid
               /\ CountLogged("Function takes arguments, not", n)
                     = IF sameCount THEN 0 ELSE 1
               /\ \A i \in 1..Len(args) :
                     CountLogged("The parameter of function is type, not", args[i])
                        = IF sameCount /\ i \in mismatch THEN 1 ELSE 0

\* a call with two arguments, both of the wrong type, was typed invalid with
\* a diagnostic on each argument
C6_Witness ==
    /\ Finished
    /\ \E n \in Nodes :
          /\ ast[n].type = "FunctionCall"
          /\ ndt[n] = DT_Invalid
          /\ Len(ast[child(n, 1)].children) = 2
          /\ \A i \in 1..2 :
                Logged("The parameter of function is type, not", ast[child(n, 1)].children[i])

\* the Assignment a has a target that resolves to a const variable
ConstTarget(a) ==
    /\ ast[a].type = "Assignment"
    /\ LET ident == getIdentifier(child(a, 0))
       IN /\ ident > 0
          /\ nscope[ident] > 0
          /\ LET h == Scope_getVariable(scopes, nscope[ident], ast[ident].tok)
             IN h > 0 /\ VarAt(scopes, h, ast[ident].tok).const

CastPairs(tt) ==
    LET table == IF tt = "As" THEN AsTable ELSE ToTable
    IN {<<table[i][1], table[i][2]>> : i \in 1..Len(table)}

\* C9: a typed cast whose (operand type, target type) pair is not in its
\* operator's table is invalid and has at least one diagnostic, on the cast
\* or on one of its two children.
C9_CastDiagnosed ==
    \A n \in Nodes :
        (ast[n].type = "BinaryOp" /\ ast[n].tt \in {"As", "To"} /\ ndt[n] # "") =>
            LET c0 == child(n, 0)
                c1 == child(n, 1)
            IN (ast[c1].type # "Type" \/ <<ndt[c0], ast[c1].tok>> \notin CastPairs(ast[n].tt)) =>
                  /\ ndt[n] = DT_Invalid
                  /\ \E i \in 1..Len(log) : log[i].node \in {n, c0, c1}

(***************************************************************************)
(* Struct layout (C10)                                                     *)
(***************************************************************************)
\* the record of the declared struct named t
DeclaredStruct(t) ==
    CHOOSE s \in {scopes[h].structs[t] : h \in {k \in 1..Len(scopes) :
                                                  t \in DOMAIN scopes[k].structs}} : TRUE

\* the struct types named by the fields of the declared struct t
FieldStructs(t) ==
    IF t \in DeclaredStructs
    THEN {DeclaredStruct(t).fields[i].type : i \in 1..Len(DeclaredStruct(t).fields)}
            \cap DeclaredStructs
    ELSE {}

\* the structs reached from t through struct-typed fields in at most k steps
RECURSIVE ReachedFrom(_, _)
ReachedFrom(t, k) ==
    IF k = 0 THEN {}
    ELSE LET R == ReachedFrom(t, k - 1)
         IN FieldStructs(t) \cup R \cup UNION {FieldStructs(u) : u \in R}

\* t contains itself, directly or through other structs
Cyclic(t) ==
    LET R == ReachedFrom(t, Cardinality(DeclaredStructs))
    IN \E u \in R \cup {t} : u \in ReachedFrom(u, Cardinality(DeclaredStructs))

RECURSIVE SumTo(_, _)
SumTo(f, k) == IF k = 0 THEN 0 ELSE SumTo(f, k - 1) + f[k]

\* the size of a type as stated: 4 or 8 for the sized primitives, the sum of
\* the field sizes for a declared struct (unfolded at most fuel times), else 0
RECURSIVE StatedSize(_, _)
StatedSize(t, fuel) ==
    IF t \in {DT_Int, DT_UInt, DT_Float, DT_Bool} THEN 4
    ELSE IF t \in {DT_Long, DT_ULong, DT_Double} THEN 8
    ELSE IF t \notin DeclaredStructs \/ fuel = 0 THEN 0
    ELSE LET fs == DeclaredStruct(t).fields
         IN SumTo([i \in 1..Len(fs) |-> StatedSize(fs[i].type, fuel - 1)], Len(fs))

SizeOfType(t) == StatedSize(t, Cardinality(DeclaredStructs))

\* the scope the Access rule of node a was given
AccessScope(a) == nscope[ast[a].parent]

AccessBase(a) == ast[child(a, 0)].tok

\* the scope of the Access node a is the one materialized for the variable
\* its base names, whose type is a struct visible from the access scope
Materialized(a) ==
    /\ ast[a].type = "Access"
    /\ nscope[a] > 0
    /\ AccessScope(a) > 0
    /\ LET p == AccessScope(a)
           M == scopes[nscope[a]]
           hv == Scope_getVariable(scopes, p, AccessBase(a))
       IN /\ M.id = AccessBase(a)
          /\ M.parent = p
          /\ hv > 0
          /\ LET v == VarAt(scopes, hv, AccessBase(a))
             IN /\ M.node = v.node
                /\ ~isPrimitive(v.type)
                /\ Scope_getStruct(scopes, p, v.type) > 0

AccessVariable(a) ==
    VarAt(scopes, Scope_getVariable(scopes, AccessScope(a), AccessBase(a)), AccessBase(a))

AccessStruct(a) ==
    LET v == AccessVariable(a)
    IN scopes[Scope_getStruct(scopes, AccessScope(a), v.type)].structs[v.type]

\* the materialized scope holds one variable per field, in order, each at
\* v.offset plus the sizes of the fields before it, with v's flags
LayoutOf(a) ==
    LET v == AccessVariable(a)
        fields == AccessStruct(a).fields
        vs == scopes[nscope[a]].vars
    IN /\ Len(vs) = Len(fields)
       /\ \A i \in 1..Len(fields) :
             /\ vs[i].id = fields[i].id
             /\ vs[i].type = fields[i].type
             /\ vs[i].offset
                   = v.offset + SumTo([j \in 1..Len(fields) |-> SizeOfType(fields[j].type)],
                                      i - 1)
             /\ vs[i].const = v.const
             /\ vs[i].export = v.export
             /\ vs[i].mapped = v.mapped

DistinctFieldIds(a) ==
    LET fields == AccessStruct(a).fields
    IN \A i, j \in 1..Len(fields) : fields[i].id = fields[j].id => i = j

ScopeVariables ==
    UNION {{scopes[s].vars[i] : i \in 1..Len(scopes[s].vars)} : s \in 1..Len(scopes)}

\* C11: every Variable of the scope tree, declared or synthesized for a
\* struct field, that is const is global, and that is mapped is global.
C11_FlagsImplyGlobal ==
    \A v \in ScopeVariables : (v.const => v.global) /\ (v.mapped => v.global)

(***************************************************************************)
(* Idempotent materialization (C12)                                        *)
(***************************************************************************)
\* scope q is p or a descendant of p
RECURSIVE WithinScope(_, _)
WithinScope(q, p) ==
    \/ q = p
    \/ q > 0 /\ scopes[q].parent # 0 /\ WithinScope(scopes[q].parent, p)

\* p.scopes[id] is a scope that makeStructScope built for a declared variable
MaterializedEntry(p, id) ==
    /\ id \in DOMAIN scopes[p].scopes
    /\ LET node == scopes[scopes[p].scopes[id]].node
       IN node # 0 /\ ast[node].type = "VariableDef"

\* the scope pass is about to visit the Access node n (a member access on id)
VisitsAccess(n, id) ==
    /\ pc = "scope" /\ n = AllOrder[idx]
    /\ ast[n].type = "Access" /\ child(n, 0) # 0 /\ ast[child(n, 0)].tok = id

C12_Step ==
    \A p \in 1..Len(scopes) : \A id \in DOMAIN scopes[p].scopes :
        MaterializedEntry(p, id) =>
            \* the entry is never replaced and the scope keeps its variables
            /\ scopes'[p].scopes[id] = scopes[p].scopes[id]
            /\ scopes'[scopes[p].scopes[id]] = scopes[scopes[p].scopes[id]]
            \* an access from p or below creates nothing and gets the scope
            \* that the nearest entry for id already held
            /\ \A n \in Nodes :
                  (VisitsAccess(n, id) /\ WithinScope(nscope[ast[n].parent], p)) =>
                      /\ Len(scopes') = Len(scopes)
                      /\ nscope'[n] = Scope_getScope(scopes, nscope[ast[n].parent], id)
                      /\ log' = log

\* C12: once a member access on v from scope p has created p.scopes[v.id],
\* every later member access on v resolved from p or a descendant of p gets
\* that scope: no scope is created, the entry is not replaced and the field
\* variables (their offsets) stay as they are.
C12_IdempotentMaterialization == [][C12_Step]_vars

\* two member accesses on v, the second from a nested block, ended with the
\* one scope that the first access materialized
C12_Witness ==
    /\ Finished
    /\ \E a, b \in Nodes :
          /\ a < b /\ ast[a].type = "Access" /\ ast[b].type = "Access"
          /\ nscope[a] = nscope[b] /\ nscope[ast[a].parent] # nscope[ast[b].parent]
          /\ \E p \in 1..Len(scopes) :
                /\ MaterializedEntry(p, "v") /\ scopes[p].scopes["v"] = nscope[a]
                /\ Len(scopes[nscope[a]].vars) = 2

(***************************************************************************)
(* Analysis run again on the annotated tree: the caller hands the same     *)
(* tree to analyze(ast) of the same analyzer once more.                    *)
(***************************************************************************)
analyzeAgain ==
    /\ pc = "done"
    /\ pc' = "hoist"
    /\ idx' = 1
    /\ UNCHANGED <<ast, nscope, ndt, scopes, log>>

NextAgain == Next \/ analyzeAgain

ReanalysisPrograms == ScenarioPrograms \cup AccessPrograms \cup MalformedPrograms

InitReanalysis == InitFor(ReanalysisPrograms)

SpecReanalysis == InitReanalysis /\ [][NextAgain]_vars

(***************************************************************************)
(* Nodes the validator flagged                                             *)
(***************************************************************************)
\* the messages a type rule reports on the node it runs for
OwnNodeMessages ==
    {"No variable named", "No function named", "No struct named",
     "Both sides of an assignment must be of the same type",
     "Constant globals cannot be assigned to", "Invalid function identifier",
     "Function takes arguments, not"}

\* the messages a type rule reports on a child of the node it runs for
ChildNodeMessages ==
    {"Invalid left-hand side of assignment", "Invalid right-hand side of assignment",
     "Invalid value argument to operator", "Invalid type argument to operator",
     "Invalid argument to operator", "Invalid 1st argument to operator",
     "Invalid 2nd argument to operator",
     "Type of return value does not match function's return type"}

\* the node whose type rule made the log entry (0: no type rule made it)
TypeRuleOwner(e) ==
    IF e.msg \in OwnNodeMessages
    THEN (IF ast[e.node].type \in {"VariableDef", "FunctionDef"} THEN 0 ELSE e.node)
    ELSE IF e.msg \in ChildNodeMessages THEN ast[e.node].parent
    ELSE IF e.msg = "The parameter of function is type, not"
    THEN ast[ast[e.node].parent].parent
    ELSE 0

Flagged == {n \in Nodes : ~ast[n].valid}

\* C13: a node the validator flagged never carries a dataType other than
\* invalid, carries invalid once analyze has finished, and no diagnostic
\* in the log was made by a type rule running for it.
C13_FlaggedNodes ==
    \A n \in Flagged :
        /\ ndt[n] \in {"", DT_Invalid}
        /\ Finished => ndt[n] = DT_Invalid
        /\ \A i \in 1..Len(log) : TypeRuleOwner(log[i]) # n

\* analyze has finished on a tree where a flagged operand was typed first
\* by its operator, which reported it, and a flagged node by the type pass
C13_Witness ==
    /\ Finished
    /\ \E n \in Flagged :
          /\ ndt[n] = DT_Invalid
          /\ ast[ast[n].parent].valid
          /\ ast[ast[n].parent].type = "BinaryOp"
          /\ Logged("Invalid 1st argument to operator", n)

\* a rule flagged n because a child it requires is not there
MissingChild(n) ==
    \E k \in 1..Len(ValidatorRules) :
        LET rule == ValidatorRules[k]
        IN /\ rule.type = ast[n].type
           /\ \/ rule.kind = "ChildCount" /\ Len(ast[n].children) < rule.count
              \/ rule.kind = "ChildTypes"
                 /\ Len(ast[n].children) < rule.start + Len(rule.types)

Thrown == pc = "thrown"

\* C14: on a tree with a node flagged for a missing required child, analyze
\* does not throw, and when it has finished every flagged node has dataType
\* invalid and every other node has a scope and a dataType.
C14_MissingChildTolerated ==
    (\E n \in Nodes : MissingChild(n)) =>
        /\ ~Thrown
        /\ Finished => \A n \in Nodes :
                          IF ast[n].valid THEN ndt[n] # "" /\ nscope[n] # 0
                          ELSE ndt[n] = DT_Invalid

(***************************************************************************)
(* getSize on struct graphs (C15)                                          *)
(***************************************************************************)
\* the fields of every declared struct
StructFields ==
    UNION {{scopes[k[1]].structs[k[2]].fields[i] :
               i \in 1..Len(scopes[k[1]].structs[k[2]].fields)} : k \in StructKeys(scopes)}

\* the outcomes of the field loops run with depth d, d + 1, ... up to beyond
\* MAX_TYPE_DEPTH, each computed from the next; a getSize call at depth d
\* reads the loops run with d + 1
RECURSIVE LoopsFrom(_)
LoopsFrom(d) ==
    IF d > MAX_TYPE_DEPTH + 2 THEN <<[key \in StructKeys(scopes) |-> NoSize]>>
    ELSE With(LoopsFrom(d + 1), LAMBDA ts :
            With(FieldSums(scopes, d, ts[1]), LAMBDA tab :
                IF tab = tab THEN <<tab>> \o ts ELSE ts))

\* C15: for every variable of the scope tree and every field of a declared
\* struct, at every depth from 0 to beyond MAX_TYPE_DEPTH, getSize returns
\* without throwing a natural number, and at a depth greater than
\* MAX_TYPE_DEPTH it returns 0 having looked up no struct (a lookup that
\* fails would be logged).
C15_SizeBounded ==
    With(LoopsFrom(1), LAMBDA loops :
        \A depth \in 0..(MAX_TYPE_DEPTH + 2) :
            \A v \in ScopeVariables \cup StructFields :
                LET r == getSizeWith(scopes, v, v.scope, depth, loops[depth + 1])
                IN /\ ~r.err
                   /\ r.size \in Nat
                   /\ depth > MAX_TYPE_DEPTH => r.size = 0 /\ r.log = <<>>)

\* analyze has finished on a program whose mapped variable's struct contains
\* itself, directly or through T; the scope of v.x was materialized, and
\* the variable has a positive size at depth 0 and size 0 beyond the cut
C15_Witness ==
    /\ Finished
    /\ \E a \in Nodes :
          /\ Materialized(a)
          /\ Cyclic(AccessVariable(a).type)
          /\ "T" \in ReachedFrom(AccessVariable(a).type, 1)
          /\ getSizeOn(scopes, AccessVariable(a), AccessScope(a), 0).size > 0
          /\ getSizeOn(scopes, AccessVariable(a), AccessScope(a), MAX_TYPE_DEPTH + 1).size = 0

(***************************************************************************)
(* Re-analysis (C16)                                                       *)
(***************************************************************************)
Annotated == \A n \in Nodes : nscope[n] # 0 /\ ndt[n] # ""

C16_Step ==
    /\ Finished => Annotated
    /\ Annotated => /\ nscope' = nscope
                    /\ ndt' = ndt
                    /\ scopes' = scopes
                    /\ log' = log

\* C16: a finished analyze leaves every node with a scope and a dataType,
\* and no step of a pass run on such a tree changes a node's scope or
\* dataType, a scope (its maps included) or the log.
C16_ReanalysisIdempotent == [][C16_Step]_vars

\* the second run has come to the end of its type pass on a tree whose
\* first run logged diagnostics and made scopes
C16_Witness ==
    /\ pc = "type" /\ idx = Len(ast)
    /\ Annotated
    /\ Len(log) > 0
    /\ Len(scopes) > Len(ConstructedScopes)

(***************************************************************************)
(* Order of the diagnostics (C17)                                          *)
(***************************************************************************)
\* the nodes from the root down to n
RECURSIVE PathTo(_)
PathTo(n) == IF ast[n].parent = 0 THEN <<n>> ELSE Append(PathTo(ast[n].parent), n)

\* the node types whose children stand in the source in the order of the
\* children list: the operands of an operator, the statements of a block,
\* the declarations of a program, the entries of a list
SourceOrdered ==
    {"BinaryOp", "Block", "Program", "Arguments", "Parameters", "Fields"}

\* the token of m stands earlier in the source than the token of n: they lie
\* under different children of a node whose children are in source order,
\* m under the earlier one (node ids are pre-order positions)
Earlier(m, n) ==
    LET pm == PathTo(m)
        pn == PathTo(n)
    IN \E k \in 1..(Len(pm) - 1) :
          /\ k < Len(pn)
          /\ \A j \in 1..k : pm[j] = pn[j]
          /\ ast[pm[k]].type \in SourceOrdered
          /\ pm[k + 1] < pn[k + 1]

\* C17: of any two diagnostics in the log, the one logged later is not on a
\* node that stands earlier in the source than the node of the other.
C17_SourceOrder ==
    \A i, j \in 1..Len(log) : i < j => ~Earlier(log[j].node, log[i].node)

(***************************************************************************)
(* Diagnosed nodes and invalid (C18)                                       *)
(***************************************************************************)
\* C18: once analyze has finished, every expression node (identifier,
\* access, literal, operator, call) that a diagnostic of the log is
\* reported on has dataType invalid.
C18_DiagnosedInvalid ==
    Finished =>
        \A i \in 1..Len(log) :
            ast[log[i].node].type \in ValueTypes => ndt[log[i].node] = DT_Invalid

(***************************************************************************)
(* Cascading diagnostics (C19)                                             *)
(***************************************************************************)
\* c has dataType invalid and a diagnostic its own type rule reported
DiagnosedItself(c) ==
    /\ ndt[c] = DT_Invalid
    /\ \E i \in 1..Len(log) : log[i].node = c /\ log[i].msg \in OwnNodeMessages

\* C19: the rule of a UnaryOp or BinaryOp node with an operand that is
\* invalid because it was diagnosed itself has made no diagnostic.
C19_NoCascade ==
    \A n \in Nodes :
        (/\ ast[n].type \in {"UnaryOp", "BinaryOp"}
         /\ \E k \in 1..Len(ast[n].children) : DiagnosedItself(ast[n].children[k]))
        => \A i \in 1..Len(log) : TypeRuleOwner(log[i]) # n

(***************************************************************************)
(* Propagation of invalid (C20)                                            *)
(***************************************************************************)
\* the children of n that the statement is about: the operands of an
\* operator (the value operand of as / to), both sides of an Assignment or
\* Global, the child of a Return, the arguments of a FunctionCall
PropagatingChildren(n) ==
    LET kids == ast[n].children
    IN IF ast[n].type = "UnaryOp" THEN {kids[k] : k \in 1..Len(kids)}
       ELSE IF ast[n].type = "BinaryOp"
       THEN (IF ast[n].tt \in {"As", "To"}
             THEN {kids[k] : k \in 1..Len(kids)} \cap {child(n, 0)}
             ELSE {kids[k] : k \in 1..Len(kids)})
       ELSE IF ast[n].type \in {"Assignment", "Global"}
       THEN {kids[k] : k \in 1..Len(kids)} \cap {child(n, 0), child(n, 1)}
       ELSE IF ast[n].type = "Return" THEN {kids[k] : k \in 1..Len(kids)} \cap {child(n, 0)}
       ELSE IF ast[n].type = "FunctionCall" /\ child(n, 1) # 0
       THEN {ast[child(n, 1)].children[k] : k \in 1..Len(ast[child(n, 1)].children)}
       ELSE {}

\* C20: unless analyze threw, a node with an operand, side, returned value
\* or argument of dataType invalid has dataType invalid itself.
C20_InvalidPropagates ==
    ~Thrown =>
        \A n \in Nodes :
            (\E c \in PropagatingChildren(n) : ndt[c] = DT_Invalid) => ndt[n] = DT_Invalid

(***************************************************************************)
(* Export modifier (C21)                                                   *)
(***************************************************************************)
HasExportModifier(d) ==
    /\ ast[d].type \in {"FunctionDef", "StructDef", "Global"}
    /\ \E k \in 1..Len(ast[d].children) : ast[ast[d].children[k]].type = "Export"

\* the export flags of the records made for the declaration d: the Variable
\* of a Global, the Function of a FunctionDef, the Struct of a StructDef
ExportFlagsOf(d) ==
    IF ast[d].type = "Global" THEN {v.export : v \in DeclaredBy(child(d, 0))}
    ELSE IF ast[d].type = "FunctionDef"
    THEN UNION {{scopes[s].funcs[id].export :
                    id \in {i \in DOMAIN scopes[s].funcs : scopes[s].funcs[i].node = d}} :
                s \in 1..Len(scopes)}
    ELSE UNION {{scopes[s].structs[id].export :
                    id \in {i \in DOMAIN scopes[s].structs : scopes[s].structs[i].node = d}} :
                s \in 1..Len(scopes)}

\* C21: once the scope pass is over, the record made for a FunctionDef,
\* StructDef or Global that has an Export modifier child has export set.
C21_ExportFlag ==
    \A d \in Nodes :
        (HasExportModifier(d) /\ pc \in {"type", "analysis", "done"}) =>
            \A flag \in ExportFlagsOf(d) : flag

(***************************************************************************)
(* The as operator (C22)                                                   *)
(***************************************************************************)
\* the conversions of `as` as stated: six pairs, each in both directions
StatedAsPairs ==
    LET half == {<<DT_Int, DT_UInt>>, <<DT_Int, DT_Float>>, <<DT_UInt, DT_Float>>,
                 <<DT_Long, DT_ULong>>, <<DT_Long, DT_Double>>, <<DT_ULong, DT_Double>>}
    IN half \cup {<<q[2], q[1]>> : q \in half}

\* C22: a typed `as` node whose right child is a Type node has the target
\* type as dataType when (operand type, target type) is a stated pair, and
\* invalid for every other pair.
C22_AsCasts ==
    \A n \in Nodes :
        (/\ ast[n].type = "BinaryOp" /\ ast[n].tt = "As" /\ ndt[n] # ""
         /\ ast[child(n, 1)].type = "Type") =>
            ndt[n] = IF <<ndt[child(n, 0)], ast[child(n, 1)].tok>> \in StatedAsPairs
                     THEN ast[child(n, 1)].tok
                     ELSE DT_Invalid

\* analyze has finished on  float a as int  typed int, the reverse of a
\* stated pair
C22_Witness ==
    /\ Finished
    /\ \E n \in Nodes :
          /\ ast[n].type = "BinaryOp" /\ ast[n].tt = "As"
          /\ ast[child(n, 1)].type = "Type" /\ ast[child(n, 1)].tok = DT_Int
          /\ ndt[child(n, 0)] = DT_Float
          /\ ndt[n] = DT_Int

(***************************************************************************)
(* Return typing (C23)                                                     *)
(***************************************************************************)
ReturnMismatch == "Type of return value does not match function's return type"

\* C23: a typed Return node that the validator did not flag, inside a
\* FunctionDef of return type r and with a child of type t, has dataType t
\* and no diagnostic when t = r and r is not void, and otherwise has
\* dataType invalid and exactly one return-mismatch diagnostic, reported on
\* its child.
C23_ReturnTyping ==
    \A n \in Nodes :
        (/\ ast[n].type = "Return" /\ ast[n].valid /\ ndt[n] # ""
         /\ Ancestor(n, "FunctionDef") # 0) =>
            LET t == ndt[child(n, 0)]
                r == ast[Ancestor(n, "FunctionDef")].tok
            IN IF t = r /\ r # DT_None
               THEN /\ ndt[n] = t
                    /\ CountLogged(ReturnMismatch, child(n, 0)) = 0
                    /\ \A i \in 1..Len(log) : log[i].node # n
               ELSE /\ ndt[n] = DT_Invalid
                    /\ CountLogged(ReturnMismatch, child(n, 0)) = 1
                    /\ \A i \in 1..Len(log) : log[i].node # n

\* analyze has finished on  void f() return nop() : the returned type
\* equals the declared void, and the Return is invalid with its diagnostic
C23_Witness ==
    /\ Finished
    /\ \E n \in Nodes :
          /\ ast[n].type = "Return" /\ ast[n].valid
          /\ Ancestor(n, "FunctionDef") # 0
          /\ ast[Ancestor(n, "FunctionDef")].tok = DT_None
          /\ ndt[child(n, 0)] = DT_None
          /\ ndt[n] = DT_Invalid
          /\ Logged(ReturnMismatch, child(n, 0))

\* C24: in every state of the analysis of a tree whose root is a Program
\* node, the root scope's variable map is empty, wherever the tree declares
\* variables and whichever struct scopes were materialized.
C24_RootVarsEmpty ==
    scopes[rootScope].vars = <<>>

C24_Witness ==
    /\ Finished
    /\ scopes[rootScope].vars = <<>>
    /\ \E s \in 1..Len(scopes) :
          /\ scopes[s].node = 1
          /\ scopes[s].parent = rootScope
          /\ scopes[s].vars # <<>>
    /\ \E a \in Nodes : ast[a].type = "Access" /\ Materialized(a)

\* the scope s and its ancestors, along the parent links
RECURSIVE ChainOf(_)
ChainOf(s) ==
    IF s = 0 THEN {} ELSE {s} \cup ChainOf(scopes[s].parent)

\* the ids some scope holds in one of its maps, and the inherited ones
LookupIds ==
    UNION {DOMAIN scopes[s].scopes \cup DOMAIN scopes[s].funcs
           \cup {scopes[s].vars[i].id : i \in 1..Len(scopes[s].vars)}
           : s \in 1..Len(scopes)}
    \cup ObjectPrototypeKeys

\* the scopes from d up to, and excluding, its ancestor s
PathBelow(d, s) == ChainOf(d) \ ChainOf(s)

DeclaresVariable(q, id) == VarPos(scopes[q].vars, id) # 0
DeclaresFunction(q, id) == id \in DOMAIN scopes[q].funcs
DeclaresScope(q, id) == id \in DOMAIN scopes[q].scopes

\* C25: for every scope S, every descendant D of S and every id, a variable,
\* function or scope lookup that is non-null from S is non-null from D, and
\* gives S's result unless a scope between D and S (S excluded) holds the id
\* in its own map of that kind.
C25_HierarchicalLookup ==
    \A id \in LookupIds : \A d \in 1..Len(scopes) :
        LET dv == Scope_getVariable(scopes, d, id)
            df == Scope_getFunction(scopes, d, id)
            ds == Scope_getScope(scopes, d, id)
        IN \A s \in ChainOf(d) \ {d} :
            LET sv == Scope_getVariable(scopes, s, id)
                sf == Scope_getFunction(scopes, s, id)
                ss == Scope_getScope(scopes, s, id)
                path == PathBelow(d, s)
            IN /\ sv # 0 =>
                     /\ dv # 0
                     /\ (\A q \in path : ~DeclaresVariable(q, id)) => dv = sv
               /\ sf # 0 =>
                     /\ df # 0
                     /\ (\A q \in path : ~DeclaresFunction(q, id)) => df = sf
               /\ ss # 0 =>
                     /\ ds # 0
                     /\ (\A q \in path : ~DeclaresScope(q, id)) => ds = ss

\* a variable that a scope on the way redeclares, a variable found unchanged
\* from a scope below its holder, and a function found from the root through
\* three scopes
C25_Witness ==
    /\ Finished
    /\ \E d \in 1..Len(scopes) : \E s \in ChainOf(d) : \E id \in LookupIds :
          /\ Scope_getVariable(scopes, s, id) = s
          /\ \E q \in PathBelow(d, s) : DeclaresVariable(q, id)
          /\ Scope_getVariable(scopes, d, id) \in PathBelow(d, s)
    /\ \E d \in 1..Len(scopes) : \E s \in ChainOf(d) \ {d} : \E id \in LookupIds :
          /\ Scope_getVariable(scopes, s, id) = s
          /\ Scope_getVariable(scopes, d, id) = s
    /\ \E d \in 1..Len(scopes) :
          /\ Cardinality(ChainOf(d)) >= 3
          /\ Scope_getFunction(scopes, d, "nop") = rootScope

\* the scopes made while a program is analyzed (the constructor made the rest)
CreatedScopes == {s \in 1..Len(scopes) : s > Len(ConstructedScopes)}

CatalogMembers(t) ==
    {"load", "store"}
    \cup (IF t \in {DT_Int, DT_UInt, DT_Long, DT_ULong}
          THEN {"clz", "ctz", "popcnt", "eqz"}
          ELSE {"abs", "ceil", "floor", "truncate", "round", "sqrt",
                "copysign", "min", "max"})

\* the scope that the access t.m made in scope s resolves t to
TypeScopeFrom(s, t) == Scope_getScope(scopes, s, t)

\* t.m, looked up from s, is the function the constructor put under the root
ResolvesMember(s, t, m) ==
    LET ts == TypeScopeFrom(s, t)
    IN /\ ts > 0
       /\ ts <= Len(ConstructedScopes)
       /\ scopes[ts].parent = rootScope
       /\ Scope_getFunction(scopes, ts, m) = ts
       /\ scopes[ts].funcs[m] = ConstructedScopes[ts].funcs[m]

ParamTypes(func) == [i \in 1..Len(func.params) |-> func.params[i].type]

CatalogResolves(s) ==
    \A t \in NumericTypes :
        /\ \A m \in CatalogMembers(t) : ResolvesMember(s, t, m)
        /\ LET ts == TypeScopeFrom(s, t)
           IN /\ scopes[ts].funcs["load"].type = t
              /\ ParamTypes(scopes[ts].funcs["load"]) = <<DT_UInt>>
              /\ scopes[ts].funcs["store"].type = DT_None
              /\ ParamTypes(scopes[ts].funcs["store"]) = <<DT_UInt, t>>

\* a scope from s upwards, the root excluded, holds a function nop of its own
UserNopAbove(s) ==
    \E q \in ChainOf(s) \ {rootScope} : DeclaresFunction(q, "nop")

\* C26: from every scope made during the analysis, nop resolves through
\* getFunction (to the builtin of the root scope unless the program declares
\* a function nop on the way up), and for every numeric type T the members
\* T.load, T.store and the type's catalog functions resolve to the functions
\* registered under the root, a load taking one uint and returning T, a store
\* taking (uint, T) and returning void.
C26_BuiltinsResolve ==
    \A s \in CreatedScopes :
        /\ Scope_getFunction(scopes, s, "nop") > 0
        /\ ~UserNopAbove(s) => Scope_getFunction(scopes, s, "nop") = rootScope
        /\ CatalogResolves(s)

\* C26 as stated: the builtin nop is what getFunction finds from every scope
C26_BuiltinNopEverywhere ==
    \A s \in CreatedScopes :
        /\ Scope_getFunction(scopes, s, "nop") = rootScope
        /\ CatalogResolves(s)

\* a load call typed with its type through a member access made two scopes
\* below the root
C26_Witness ==
    /\ Finished
    /\ log = <<>>
    /\ \E n \in Nodes :
          /\ ast[n].type = "FunctionCall"
          /\ ast[child(n, 0)].type = "Access"
          /\ ast[child(child(n, 0), 1)].tok = "load"
          /\ ndt[n] = DT_Double
          /\ nscope[child(n, 0)] = TypeScopeFrom(nscope[n], DT_Double)
          /\ nscope[n] \in CreatedScopes
          /\ Scope_getFunction(scopes, nscope[n], "nop") = rootScope

\* the StructDef children of the Program
ProgramStructDefs ==
    {d \in Nodes : ast[d].type = "StructDef" /\ ast[d].parent = 1}

\* the hoist pass is over and nothing was thrown
Hoisted == pc \in {"scope", "type", "analysis", "done"}

NoStructNamed == "No struct named"
NoScopeNamed == "No scope named"

\* the member access a got the scope that was built for the variable its
\* base names, and neither the access nor the variable was reported
ResolvedAccess(a) ==
    /\ nscope[a] > 0
    /\ scopes[nscope[a]].id = AccessBase(a)
    /\ scopes[nscope[a]].node = AccessVariable(a).node
    /\ ~Logged(NoScopeNamed, a)
    /\ ~Logged(NoStructNamed, AccessVariable(a).node)

\* the access a names a variable that a VariableDef earlier in the source
\* declared, of a type that some StructDef child of the Program declares
AccessOnDeclared(a) ==
    /\ ast[a].type = "Access" /\ child(a, 0) # 0
    /\ nscope[a] # 0 /\ AccessScope(a) > 0
    /\ Scope_getVariable(scopes, AccessScope(a), AccessBase(a)) > 0
    /\ AccessVariable(a).node # 0
    /\ AccessVariable(a).node < a
    /\ \E d \in ProgramStructDefs : ast[child(d, 0)].tok = AccessVariable(a).type

MissingStructField(s, fv) ==
    /\ ~isPrimitive(fv.type)
    /\ Scope_getStruct(scopes, s, fv.type) = 0

\* C28: whenever makeStructScope has sized a synthesized field variable whose
\* non-primitive type names no struct visible from the materialized scope, a
\* missing-struct diagnostic is in the log and the variable took no room:
\* the field after it has the same offset.
C28_MissingStructReported ==
    \A a \in Nodes :
        (Materialized(a) /\ Len(scopes[nscope[a]].vars) = Len(AccessStruct(a).fields)) =>
            \A i \in 1..Len(scopes[nscope[a]].vars) :
                MissingStructField(nscope[a], scopes[nscope[a]].vars[i]) =>
                    /\ \E k \in 1..Len(log) : log[k].msg = NoStructNamed
                    /\ i < Len(scopes[nscope[a]].vars) =>
                          scopes[nscope[a]].vars[i + 1].offset
                              = scopes[nscope[a]].vars[i].offset

\* the scope s is the entry its parent holds under the id of s
RegisteredInParent(s) ==
    /\ scopes[s].parent > 0
    /\ scopes[s].id \in DOMAIN scopes[scopes[s].parent].scopes
    /\ scopes[scopes[s].parent].scopes[scopes[s].id] = s

\* C29: at the end of the analysis the scope of every Program and Block node
\* is the entry that its parent scope holds under the scope's id.
C29_BlocksStayRegistered ==
    Finished =>
        \A n \in Nodes :
            ast[n].type \in {"Program", "Block"} => RegisteredInParent(nscope[n])

\* the access a names a variable that some VariableDef declared in the
\* access's scope or an ancestor, before or after a in the source, of a type
\* that a StructDef child of the Program declares
AccessOnVisible(a) ==
    /\ ast[a].type = "Access" /\ child(a, 0) # 0
    /\ nscope[a] # 0 /\ AccessScope(a) > 0
    /\ Scope_getVariable(scopes, AccessScope(a), AccessBase(a)) > 0
    /\ AccessVariable(a).node # 0
    /\ \E d \in ProgramStructDefs : ast[child(d, 0)].tok = AccessVariable(a).type

\* C30: at the end of the analysis every member access on a struct-typed
\* variable declared in the access's scope or an ancestor scope has that
\* variable's struct scope and no diagnostic, wherever the declaration stands
\* in the source relative to the access.
C30_OrderIndependentAccess ==
    Finished => \A a \in Nodes : AccessOnVisible(a) => ResolvedAccess(a)
====
